---- MODULE Spec2Model ----
(***************************************************************************)
(* Model of the polykube node bootstrap (src/init): the resolver of the    *)
(* node addressing, the VXLAN interface creation, the creation and wiring  *)
(* of the four polycube cubes, the CNI configuration file and the static   *)
(* reachability of the other cluster nodes.                                *)
(*                                                                         *)
(* Values follow the Go types: a net.IP, a net.IPMask and a                *)
(* net.HardwareAddr are sequences of bytes (<<>> is nil), a string is a    *)
(* TLA+ string, a *net.IPNet is a record [IP, Mask].  The kernel, the      *)
(* cluster and the polycube daemon are the environment: their tables are   *)
(* state, every call on them is one step of the program and may fail.      *)
(***************************************************************************)
EXTENDS Integers, Sequences, FiniteSets, TLC

(***************************************************************************)
(* Bounds of the model.                                                    *)
(***************************************************************************)
\* number of worker nodes of the cluster (worker1 .. workerN), besides the master
NumWorkers == 3

(***************************************************************************)
(* Strings.                                                                *)
(***************************************************************************)
Char(s, i) == SubSeq(s, i, i)

\* strings.HasPrefix
HasPrefix(s, prefix) ==
    /\ Len(s) >= Len(prefix)
    /\ SubSeq(s, 1, Len(prefix)) = prefix

\* strings.TrimPrefix
TrimPrefix(s, prefix) ==
    IF HasPrefix(s, prefix) THEN SubSeq(s, Len(prefix) + 1, Len(s)) ELSE s

\* position of the first occurrence of the one-character string c in s, 0 if none
RECURSIVE IndexFrom(_, _, _)
IndexFrom(s, c, i) ==
    IF i > Len(s) THEN 0
    ELSE IF Char(s, i) = c THEN i
    ELSE IndexFrom(s, c, i + 1)

Index(s, c) == IndexFrom(s, c, 1)

DecDigits == <<"0", "1", "2", "3", "4", "5", "6", "7", "8", "9">>

DigitVal(c) == CHOOSE d \in 0..9 : DecDigits[d + 1] = c

IsDigit(c) == \E d \in 0..9 : DecDigits[d + 1] = c

\* value of a string of decimal digits, -1 when it is empty or holds another character
RECURSIVE ParseDigits(_, _)
ParseDigits(s, acc) ==
    IF s = "" THEN acc
    ELSE IF IsDigit(Char(s, 1)) THEN ParseDigits(Tail(s), acc * 10 + DigitVal(Char(s, 1)))
    ELSE -1

ParseUint(s) == IF s = "" THEN -1 ELSE ParseDigits(s, 0)

\* strconv.Atoi: an optional sign followed by decimal digits
Atoi(s) ==
    LET signed == s # "" /\ Char(s, 1) \in {"+", "-"}
        body   == IF signed THEN Tail(s) ELSE s
        v      == ParseUint(body)
    IN  IF v < 0 THEN [err |-> TRUE, n |-> 0]
        ELSE [err |-> FALSE, n |-> IF signed /\ Char(s, 1) = "-" THEN 0 - v ELSE v]

\* strconv.Itoa for n >= 0
RECURSIVE Itoa(_)
Itoa(n) ==
    IF n < 10 THEN DecDigits[n + 1]
    ELSE Itoa(n \div 10) \o DecDigits[(n % 10) + 1]

\* the hexadecimal digits, as written and as read
HexDigits == <<"0", "1", "2", "3", "4", "5", "6", "7",
               "8", "9", "a", "b", "c", "d", "e", "f">>

UpperHex == <<"0", "1", "2", "3", "4", "5", "6", "7",
              "8", "9", "A", "B", "C", "D", "E", "F">>

IsHex(c) == \E d \in 0..15 : HexDigits[d + 1] = c \/ UpperHex[d + 1] = c

HexVal(c) == CHOOSE d \in 0..15 : HexDigits[d + 1] = c \/ UpperHex[d + 1] = c

\* utils.CreatePeer
CreatePeer(serviceName, servicePort) == serviceName \o ":" \o servicePort

(***************************************************************************)
(* Bytes, addresses and masks.                                             *)
(***************************************************************************)
RECURSIVE Pow2(_)
Pow2(n) == IF n = 0 THEN 1 ELSE 2 * Pow2(n - 1)

\* a | b on bytes
RECURSIVE ByteOr(_, _, _)
ByteOr(a, b, bits) ==
    IF bits = 0 THEN 0
    ELSE 2 * ByteOr(a \div 2, b \div 2, bits - 1)
         + (IF (a % 2) + (b % 2) > 0 THEN 1 ELSE 0)

\* a & b on bytes
RECURSIVE ByteAnd(_, _, _)
ByteAnd(a, b, bits) ==
    IF bits = 0 THEN 0
    ELSE 2 * ByteAnd(a \div 2, b \div 2, bits - 1)
         + (IF (a % 2) + (b % 2) = 2 THEN 1 ELSE 0)

\* ^a on a byte
ByteNot(a) == 255 - a

\* net.CIDRMask(ones, 8 * n): n bytes, the first `ones` bits set
CIDRMask(ones, n) ==
    [i \in 1..n |->
        LET k == ones - 8 * (i - 1)
        IN  IF k >= 8 THEN 255
            ELSE IF k <= 0 THEN 0
            ELSE 256 - Pow2(8 - k)]

\* number of leading one bits of a byte, -1 when the ones are not contiguous
ByteOnes(b) ==
    IF \E k \in 0..8 : b = 256 - Pow2(8 - k)
    THEN CHOOSE k \in 0..8 : b = 256 - Pow2(8 - k)
    ELSE -1

\* net.IPMask.Size: the prefix length of a canonical mask
RECURSIVE MaskOnesFrom(_, _)
MaskOnesFrom(mask, i) ==
    IF i > Len(mask) THEN 0
    ELSE IF mask[i] = 255 THEN 8 + MaskOnesFrom(mask, i + 1)
    ELSE ByteOnes(mask[i])

MaskSize(mask) == MaskOnesFrom(mask, 1)

\* net.IP.Mask for an address and a mask of the same length
MaskIP(ip, mask) == [i \in 1..Len(ip) |-> ByteAnd(ip[i], mask[i], 8)]

\* net.IP.To4: the 4-byte form, also of an IPv4-mapped 16-byte address; nil for an
\* address that is not IPv4
To4(ip) ==
    IF Len(ip) = 4 THEN ip
    ELSE IF /\ Len(ip) = 16
            /\ \A i \in 1..10 : ip[i] = 0
            /\ ip[11] = 255
            /\ ip[12] = 255
    THEN SubSeq(ip, 13, 16)
    ELSE <<>>

\* net.IP.Equal on addresses of the same family
IPEqual(a, b) == a # <<>> /\ a = b

\* ip.NextIP (containernetworking/plugins/pkg/ip): the address incremented by 1
RECURSIVE IncFrom(_, _)
IncFrom(ip, i) ==
    IF i = 0 THEN ip
    ELSE IF ip[i] < 255 THEN [ip EXCEPT ![i] = @ + 1]
    ELSE IncFrom([ip EXCEPT ![i] = 0], i - 1)

NextIP(ip) == IncFrom(ip, Len(ip))

\* ip.PrevIP (containernetworking/plugins/pkg/ip): the address decremented by 1
RECURSIVE DecFrom(_, _)
DecFrom(ip, i) ==
    IF i = 0 THEN ip
    ELSE IF ip[i] > 0 THEN [ip EXCEPT ![i] = @ - 1]
    ELSE DecFrom([ip EXCEPT ![i] = 255], i - 1)

PrevIP(ip) == DecFrom(ip, Len(ip))

\* the 16-bit value n in hexadecimal without leading zeros
RECURSIVE HexString(_)
HexString(n) ==
    IF n < 16 THEN HexDigits[n + 1]
    ELSE HexString(n \div 16) \o HexDigits[(n % 16) + 1]

\* the 8 groups of a 16-byte address
GroupsOf(ip) == [i \in 1..8 |-> ip[2 * i - 1] * 256 + ip[2 * i]]

\* the number of zero groups from group i on
RECURSIVE ZeroRun(_, _)
ZeroRun(g, i) == IF i > 8 \/ g[i] # 0 THEN 0 ELSE 1 + ZeroRun(g, i + 1)

\* the text of the groups from i on, the run of zero groups from e0 to e1 - 1 as "::"
RECURSIVE GroupsText(_, _, _, _)
GroupsText(g, i, e0, e1) ==
    IF i > 8 THEN ""
    ELSE IF i = e0
    THEN "::" \o (IF e1 > 8 THEN ""
                  ELSE HexString(g[e1]) \o GroupsText(g, e1 + 1, e0, e1))
    ELSE (IF i > 1 THEN ":" ELSE "") \o HexString(g[i]) \o GroupsText(g, i + 1, e0, e1)

\* net.IP.String: dotted decimal for an IPv4 address, groups of hexadecimal digits with
\* the first longest run of two or more zero groups shortened for an IPv6 address
IPString(ip) ==
    IF ip = <<>> THEN "<nil>"
    ELSE IF To4(ip) # <<>>
    THEN LET p4 == To4(ip)
         IN  Itoa(p4[1]) \o "." \o Itoa(p4[2]) \o "." \o Itoa(p4[3]) \o "." \o Itoa(p4[4])
    ELSE IF Len(ip) # 16 THEN "?"
    ELSE LET g    == GroupsOf(ip)
             runs == {i \in 1..8 : ZeroRun(g, i) >= 2}
             e0   == IF runs = {} THEN 0
                     ELSE CHOOSE i \in runs :
                            \A j \in runs : \/ ZeroRun(g, i) > ZeroRun(g, j)
                                            \/ ZeroRun(g, i) = ZeroRun(g, j) /\ i <= j
             e1   == IF e0 = 0 THEN 0 ELSE e0 + ZeroRun(g, e0)
         IN  GroupsText(g, 1, e0, e1)

\* net.IPNet.String: address "/" prefix length
IPNetString(n) == IPString(n.IP) \o "/" \o Itoa(MaskSize(n.Mask))

\* one decimal field of a dotted quad: 1 to 3 digits, no leading zero, at most 255
ParseOctet(s) ==
    LET v == ParseUint(s)
    IN  IF Len(s) < 1 \/ Len(s) > 3 \/ v < 0 \/ v > 255 THEN -1
        ELSE IF Len(s) > 1 /\ Char(s, 1) = "0" THEN -1
        ELSE v

\* the fields of s separated by the one-character string sep
RECURSIVE Split(_, _)
Split(s, sep) ==
    LET k == Index(s, sep)
    IN  IF k = 0 THEN <<s>>
        ELSE <<SubSeq(s, 1, k - 1)>> \o Split(SubSeq(s, k + 1, Len(s)), sep)

\* position of the first occurrence of the string sub in s from position i on, 0 if none
RECURSIVE IndexSub(_, _, _)
IndexSub(s, sub, i) ==
    IF i + Len(sub) - 1 > Len(s) THEN 0
    ELSE IF SubSeq(s, i, i + Len(sub) - 1) = sub THEN i
    ELSE IndexSub(s, sub, i + 1)

\* value of a group of 1 to 4 hexadecimal digits, -1 for any other text
RECURSIVE HexDigitsVal(_, _)
HexDigitsVal(s, acc) ==
    IF s = "" THEN acc
    ELSE IF IsHex(Char(s, 1)) THEN HexDigitsVal(Tail(s), acc * 16 + HexVal(Char(s, 1)))
    ELSE -1

HexGroup(s) == IF Len(s) < 1 \/ Len(s) > 4 THEN -1 ELSE HexDigitsVal(s, 0)

\* the groups written in t, separated by ":"
GroupsIn(t) == IF t = "" THEN <<>> ELSE Split(t, ":")

\* net.ParseIP for IPv6 text of hexadecimal groups with at most one "::" (no zone, no
\* dotted tail): the 16 bytes, nil for any other text
ParseIPv6(s) ==
    LET k      == IndexSub(s, "::", 1)
        left   == IF k = 0 THEN GroupsIn(s) ELSE GroupsIn(SubSeq(s, 1, k - 1))
        right  == IF k = 0 THEN <<>> ELSE GroupsIn(SubSeq(s, k + 2, Len(s)))
        fill   == 8 - Len(left) - Len(right)
        groups == left \o [i \in 1..fill |-> "0"] \o right
    IN  IF (k = 0 /\ Len(left) # 8) \/ (k > 0 /\ Len(left) + Len(right) > 7) THEN <<>>
        ELSE IF \E i \in 1..8 : HexGroup(groups[i]) < 0 THEN <<>>
        ELSE [i \in 1..16 |->
                IF i % 2 = 1 THEN HexGroup(groups[(i + 1) \div 2]) \div 256
                ELSE HexGroup(groups[i \div 2]) % 256]

\* net.ParseIP for dotted-quad text: the 4 bytes, nil when s is no IPv4 address
ParseIPv4(s) ==
    LET f == Split(s, ".")
    IN  IF Len(f) # 4 THEN <<>>
        ELSE IF \E i \in 1..4 : ParseOctet(f[i]) < 0 THEN <<>>
        ELSE [i \in 1..4 |-> ParseOctet(f[i])]

\* net.ParseIP: an IPv4 address in its 4-byte form, an IPv6 address in 16 bytes, nil
\* for any other text
ParseIP(s) == IF Index(s, ":") > 0 THEN ParseIPv6(s) ELSE ParseIPv4(s)

NilIPNet == [IP |-> <<>>, Mask |-> <<>>]

\* net.ParseCIDR: the network (address masked) and its mask
ParseCIDR(s) ==
    LET k    == Index(s, "/")
        ip   == ParseIP(SubSeq(s, 1, k - 1))
        plen == ParseUint(SubSeq(s, k + 1, Len(s)))
    IN  IF k = 0 \/ ip = <<>> \/ plen < 0 \/ plen > 8 * Len(ip)
        THEN [err |-> TRUE, net |-> NilIPNet]
        ELSE [err |-> FALSE,
              net |-> [IP   |-> MaskIP(ip, CIDRMask(plen, Len(ip))),
                       Mask |-> CIDRMask(plen, Len(ip))]]

(***************************************************************************)
(* Hardware addresses.                                                     *)
(***************************************************************************)
\* net.HardwareAddr.String: lower-case hexadecimal bytes joined by ":"
RECURSIVE MACString(_)
MACString(mac) ==
    IF mac = <<>> THEN ""
    ELSE LET b == HexDigits[(mac[1] \div 16) + 1] \o HexDigits[(mac[1] % 16) + 1]
         IN  IF Len(mac) = 1 THEN b ELSE b \o ":" \o MACString(Tail(mac))

\* net.ParseMAC for the 6-byte colon form xx:xx:xx:xx:xx:xx
ParseMAC(s) ==
    LET f == Split(s, ":")
        okField(x) == Len(x) = 2 /\ IsHex(Char(x, 1)) /\ IsHex(Char(x, 2))
    IN  IF Len(s) # 17 \/ Len(f) # 6 \/ \E i \in 1..6 : ~okField(f[i])
        THEN [err |-> TRUE, mac |-> <<>>]
        ELSE [err |-> FALSE,
              mac |-> [i \in 1..6 |-> 16 * HexVal(Char(f[i], 1)) + HexVal(Char(f[i], 2))]]

(***************************************************************************)
(* The environment the bootstrap runs in.                                  *)
(***************************************************************************)
\* the machines the bootstrap is run on: worker1 and worker2
LocalOrdinals == {1, 2}

\* a v1.Node of the cluster: .Name, .Status.Addresses, .Spec.PodCIDR
Master ==
    [Name      |-> "master",
     Addresses |-> <<[Type |-> "Hostname", Address |-> "master"],
                     [Type |-> "InternalIP", Address |-> "192.168.0.10"]>>,
     PodCIDR   |-> "10.10.0.0/24"]

Worker(n) ==
    [Name      |-> "worker" \o Itoa(n),
     Addresses |-> <<[Type |-> "Hostname", Address |-> "worker" \o Itoa(n)],
                     [Type |-> "InternalIP", Address |-> "192.168.0." \o Itoa(10 + n)]>>,
     PodCIDR   |-> "10.10." \o Itoa(n) \o ".0/24"]

\* the node list of the cluster: the control-plane node and the workers
Cluster == <<Master>> \o [n \in 1..NumWorkers |-> Worker(n)]

NilNode == [Name |-> "", Addresses |-> <<>>, PodCIDR |-> ""]

\* a netlink.Link with its IPv4 addresses (netlink.AddrList)
NilVxlan == [VxlanId |-> 0, VtepDevIndex |-> 0, Port |-> 0]

NilLink ==
    [Name |-> "", Index |-> 0, HardwareAddr |-> <<>>, Up |-> FALSE, Addrs |-> <<>>,
     Vxlan |-> NilVxlan]

Loopback ==
    [Name |-> "lo", Index |-> 1, HardwareAddr |-> <<0, 0, 0, 0, 0, 0>>, Up |-> TRUE,
     Addrs |-> <<[IP |-> ParseIP("127.0.0.1"), Mask |-> CIDRMask(8, 4)]>>,
     Vxlan |-> NilVxlan]

\* the uplink of worker n: it carries the internal IP the cluster reports for the node
Uplink(n) ==
    [Name |-> "eth0", Index |-> 2, HardwareAddr |-> <<82, 84, 0, 0, 0, 10 + n>>, Up |-> TRUE,
     Addrs |-> <<[IP   |-> ParseIP("192.168.0." \o Itoa(10 + n)),
                  Mask |-> CIDRMask(24, 4)]>>,
     Vxlan |-> NilVxlan]

\* a VXLAN device named vxlan0 that is on the machine before the run
StaleVxlan ==
    [Name |-> "vxlan0", Index |-> 3, HardwareAddr |-> <<2, 0, 0, 0, 0, 3>>, Up |-> TRUE,
     Addrs |-> <<>>, Vxlan |-> [VxlanId |-> 42, VtepDevIndex |-> 2, Port |-> 4789]]

UplinkGwIP == ParseIP("192.168.0.1")

\* the kernel's answer to netlink.RouteGet(1.0.0.0)
ProbeRoutes == <<[LinkIndex |-> 2, Gw |-> UplinkGwIP]>>

\* the neighbor table of the uplink: the gateway's entry is resolved, is present
\* without a link-layer address (INCOMPLETE or FAILED), or is absent
NeighTables ==
    LET other == [LinkIndex |-> 2, IP |-> ParseIP("192.168.0.77"), State |-> "REACHABLE",
                  HardwareAddr |-> <<82, 84, 0, 0, 0, 77>>]
    IN  { <<other, [LinkIndex |-> 2, IP |-> UplinkGwIP, State |-> "REACHABLE",
                    HardwareAddr |-> <<82, 84, 0, 0, 0, 1>>]>>,
          <<other, [LinkIndex |-> 2, IP |-> UplinkGwIP, State |-> "INCOMPLETE",
                    HardwareAddr |-> <<>>]>>,
          <<other>> }

\* the MAC addresses the datapath gives to a router port created without one
DatapathMACs == {"02:42:ac:00:00:01", "F2:11:22:33:44:55"}

\* the environment variables of the process ("" is unset)
Environments(n) ==
    { [NODE_K8S_NAME         |-> "worker" \o Itoa(n),
       NODE_VXLAN_IFACE_NAME |-> vx,
       NODE_VTEP_CIDR        |-> "",
       CNI_CONF_FILE_PATH    |-> "",
       POLYCUBE_VPODS_RANGE  |-> net[1],
       POLYCUBE_MTU          |-> net[2],
       POLYCUBE_BRIDGE_NAME  |-> cn[1],
       POLYCUBE_ROUTER_NAME  |-> r,
       POLYCUBE_LBRP_NAME    |-> cn[2],
       POLYCUBE_K8SDISP_NAME |-> cn[3]]
      : vx \in {"", "vx1"}, r \in {"", "r1"},
        cn \in {<<"", "", "">>, <<"br1", "lb1", "k1">>},
        net \in {<<"", "">>, <<"10.0.0.0/8", "9000">>} }

(***************************************************************************)
(* The state.                                                              *)
(***************************************************************************)
VARIABLES
    env,       \* the environment variables
    host,      \* the ordinal of the worker the process runs on
    cluster,   \* the cluster's node list (clientset)
    routes,    \* kernel: the routes to the probe address (netlink.RouteGet)
    links,     \* kernel: the interfaces with their addresses
    neighs,    \* kernel: the neighbor and forwarding-database entries
    cubes,     \* polycube: cube name -> cube
    file,      \* the CNI configuration file
    conf,      \* main: conf *EnvConf
    nodeInfo,  \* main: nodeInfo *NodeInfo
    link,      \* CreateNodeVxlanIface / AddNode: link
    k,         \* ConnectCubes: the next wiring call
    nodes,     \* addOtherNodes: nodes.Items
    idx,       \* addOtherNodes: position in nodes.Items
    peer,      \* addOtherNodes: nodeIP, nodePodCIDR, nodeVtepIPNet of the current node
    pc,        \* the statement the process is at
    err,       \* the error the process ended with
    calls      \* the kernel, cluster and management-API calls issued so far

vars == <<env, host, cluster, routes, links, neighs, cubes, file, conf, nodeInfo, link, k,
          nodes, idx, peer, pc, err, calls>>

\* what the run has changed outside the process
effects == <<links, neighs, cubes, file>>

\* the state of the kernel's tables and of the cluster seen from the process
static == <<env, host, cluster, routes>>

NilGwInfo == [IPNet |-> NilIPNet, MAC |-> <<>>]

NilIface == [IPNet |-> NilIPNet, Link |-> NilLink]

NilConf ==
    [nodeName |-> "", vxlanIfName |-> "", vtepCIDR |-> NilIPNet, CNIConfFilePath |-> "",
     vClusterCIDR |-> NilIPNet, MTU |-> 0, bridgeName |-> "", routerName |-> "",
     lbrpName |-> "", k8sDispName |-> ""]

NilNodeInfo ==
    [name |-> "", kNode |-> NilNode, podCIDR |-> NilIPNet, podGwInfo |-> NilGwInfo,
     extIface |-> NilIface, nodeVtepIPNet |-> NilIPNet, nodeGwInfo |-> NilGwInfo]

NilPeer == [name |-> "", nodeIP |-> <<>>, nodePodCIDR |-> NilIPNet, nodeVtepIP |-> <<>>]

NoFile == [exists |-> FALSE, content |-> <<>>]

(***************************************************************************)
(* main: the order of the stages of the bootstrap.                         *)
(***************************************************************************)
\* main mutated: the cubes are created before the VXLAN interface
MainOrderCubesFirst ==
    <<"BuildNodeInfo", "CreateCubes", "CreateNodeVxlanIface",
      "GetNodePodDefaultGatewayMAC", "CreateCNIConfFile", "addOtherNodes">>

\* the calls of main, in the order of its statements
MainOrder ==
    <<"BuildNodeInfo", "CreateNodeVxlanIface", "CreateCubes",
      "GetNodePodDefaultGatewayMAC", "CreateCNIConfFile", "addOtherNodes">>

\* CreateCubes mutated: the cubes are wired before the dispatcher is created
CreateCubesOrderWireEarly ==
    <<"CreateBridge", "CreateRouter", "CreateLbrp", "ConnectCubes", "CreateK8sDispatcher">>

\* the calls of CreateCubes, in the order of its statements
CreateCubesOrder ==
    <<"CreateBridge", "CreateRouter", "CreateLbrp", "CreateK8sDispatcher", "ConnectCubes">>

PosIn(seq, x) == CHOOSE i \in DOMAIN seq : seq[i] = x

\* the first statement of a call of main
Entry(stage) ==
    CASE stage = "BuildNodeInfo"               -> "GetNode"
      [] stage = "CreateNodeVxlanIface"        -> "LinkAdd"
      [] stage = "CreateCubes"                 -> CreateCubesOrder[1]
      [] stage = "GetNodePodDefaultGatewayMAC" -> "GetNodePodDefaultGatewayMAC"
      [] stage = "CreateCNIConfFile"           -> "CreateCNIConfFile"
      [] stage = "addOtherNodes"               -> "ListNodes"

\* where main goes on when the call `stage` has returned without error
MainReturn(stage) ==
    LET i == PosIn(MainOrder, stage)
    IN  IF i = Len(MainOrder) THEN "done" ELSE Entry(MainOrder[i + 1])

\* where CreateCubes goes on when its call `step` has returned without error
CubesReturn(step) ==
    LET i == PosIn(CreateCubesOrder, step)
    IN  IF i = Len(CreateCubesOrder) THEN MainReturn("CreateCubes")
        ELSE CreateCubesOrder[i + 1]

\* log.Fatal mutated: the failed call is tried again
FatalRetry(e) ==
    /\ pc' = pc
    /\ err' = e

\* log.Fatal (logrus) ends the process: no statement after it runs
Fatal(e) ==
    /\ pc' = "exited"
    /\ err' = e

Goto(next) ==
    /\ pc' = next
    /\ err' = err

\* the call of main a statement belongs to
StageOf(p) ==
    CASE p \in {"GetNode", "ParseNodePodCIDR", "CalcNodePodDefaultGateway",
                "GetNodeExtIface", "CalcNodeVtepIPNet", "GetNodeDefaultGateway",
                "NeighList"}
              -> "BuildNodeInfo"
      [] p \in {"LinkAdd", "LinkByName", "LinkSetUp", "AddrAdd"}
              -> "CreateNodeVxlanIface"
      [] p \in {"CreateBridge", "CreateRouter", "CreateLbrp", "CreateK8sDispatcher",
                "CreateK8sDispatcherPort", "ConnectCubes"}
              -> "CreateCubes"
      [] p = "GetNodePodDefaultGatewayMAC"
              -> "GetNodePodDefaultGatewayMAC"
      [] p \in {"CreateCNIConfFile", "WriteCNIConfFile"}
              -> "CreateCNIConfFile"
      [] p \in {"ListNodes", "NextNode", "AddNodeLinkByName", "AddNodeNeighAppend",
                "AddNodeCreateRoute"}
              -> "addOtherNodes"
      [] OTHER -> ""

\* the record of a call on the kernel, the cluster or the management API: the call of
\* main that issued it, the operation, what it is on, its arguments, and whether it
\* returned without error (the conjunct follows the one that sets err')
Call(op, on, arg, val) ==
    calls' = Append(calls, [by |-> StageOf(pc), op |-> op, on |-> on, arg |-> arg,
                            val |-> val, ok |-> (err' = "")])

(***************************************************************************)
(* Configuration (conf.go).                                                *)
(***************************************************************************)
\* getEnv: the variable's value, the default when it is unset
getEnv(e, envVar, defaultVal) == IF e[envVar] = "" THEN defaultVal ELSE e[envVar]

\* GetEnvConf: the configuration read from the environment variables
GetEnvConfOf(e) ==
    LET vtep == ParseCIDR(getEnv(e, "NODE_VTEP_CIDR", "10.18.0.0/16"))
        vclu == ParseCIDR(getEnv(e, "POLYCUBE_VPODS_RANGE", "10.10.0.0/16"))
        mtu  == Atoi(getEnv(e, "POLYCUBE_MTU", "1450"))
    IN  [err  |-> e["NODE_K8S_NAME"] = "" \/ vtep.err \/ vclu.err \/ mtu.err,
         conf |-> [nodeName        |-> e["NODE_K8S_NAME"],
                   vxlanIfName     |-> getEnv(e, "NODE_VXLAN_IFACE_NAME", "vxlan0"),
                   vtepCIDR        |-> vtep.net,
                   CNIConfFilePath |-> getEnv(e, "CNI_CONF_FILE_PATH",
                                              "/etc/cni/net.d/00-polykube.json"),
                   vClusterCIDR    |-> vclu.net,
                   MTU             |-> mtu.n,
                   bridgeName      |-> getEnv(e, "POLYCUBE_BRIDGE_NAME", "br0"),
                   routerName      |-> getEnv(e, "POLYCUBE_ROUTER_NAME", "r0"),
                   lbrpName        |-> getEnv(e, "POLYCUBE_LBRP_NAME", "lbrp0"),
                   k8sDispName     |-> getEnv(e, "POLYCUBE_K8SDISP_NAME", "k0")]]

GetEnvConf ==
    /\ pc = "GetEnvConf"
    /\ LET r == GetEnvConfOf(env)
       IN  IF r.err
           THEN Fatal("ConfigurationError") /\ conf' = conf
           ELSE Goto(Entry(MainOrder[1])) /\ conf' = r.conf
    /\ UNCHANGED <<static, effects, nodeInfo, link, k, nodes, idx, peer, calls>>

(***************************************************************************)
(* The resolver of the node addressing (BuildNodeInfo and its callees).    *)
(***************************************************************************)
\* the first address of type NodeInternalIP of a node, parsed; nil when there is none
RECURSIVE InternalIPFrom(_, _)
InternalIPFrom(addresses, i) ==
    IF i > Len(addresses) THEN <<>>
    ELSE IF addresses[i].Type = "InternalIP" THEN ParseIP(addresses[i].Address)
    ELSE InternalIPFrom(addresses, i + 1)

InternalIP(node) == InternalIPFrom(node.Addresses, 1)

\* ParseNodePodCIDR: the pod CIDR of the node, which must be IPv4
ParseNodePodCIDR(node) ==
    LET r == ParseCIDR(node.PodCIDR)
    IN  IF r.err THEN [err |-> TRUE, podCIDR |-> NilIPNet]
        ELSE IF To4(r.net.IP) = <<>> THEN [err |-> TRUE, podCIDR |-> NilIPNet]
        ELSE [err |-> FALSE, podCIDR |-> [r.net EXCEPT !.IP = To4(r.net.IP)]]

\* CalcNodePodDefaultGateway mutated: the broadcast address itself is the gateway
CalcNodePodDefaultGatewayNoPrev(podCIDR) ==
    [IPNet |-> [IP   |-> [i \in 1..4 |->
                             ByteOr(podCIDR.IP[i], ByteNot(podCIDR.Mask[i]), 8)],
                Mask |-> podCIDR.Mask],
     MAC   |-> <<>>]

\* CalcNodePodDefaultGateway: the address before the broadcast address of the pod CIDR
CalcNodePodDefaultGateway(podCIDR) ==
    LET subIP          == podCIDR.IP
        subMask        == podCIDR.Mask
        subBroadcastIP == [i \in 1..4 |-> ByteOr(subIP[i], ByteNot(subMask[i]), 8)]
        gwIP           == PrevIP(subBroadcastIP)
    IN  [IPNet |-> [IP |-> gwIP, Mask |-> subMask], MAC |-> <<>>]

\* GetNodeExtIface: the first interface that has the node's internal IP among its
\* IPv4 addresses, with that address
RECURSIVE FindAddr(_, _, _)
FindAddr(addrs, ip, j) ==
    IF j > Len(addrs) THEN 0
    ELSE IF IPEqual(addrs[j].IP, ip) THEN j
    ELSE FindAddr(addrs, ip, j + 1)

\* GetNodeExtIface mutated: the search goes on after a match, the last match is returned
RECURSIVE FindExtIfaceLast(_, _, _)
FindExtIfaceLast(ls, ip, i) ==
    IF i > Len(ls) THEN [err |-> TRUE, iface |-> NilIface]
    ELSE LET j    == FindAddr(ls[i].Addrs, ip, 1)
             rest == FindExtIfaceLast(ls, ip, i + 1)
         IN  IF j > 0 /\ rest.err
             THEN [err |-> FALSE, iface |-> [IPNet |-> ls[i].Addrs[j], Link |-> ls[i]]]
             ELSE rest

RECURSIVE FindExtIface(_, _, _)
FindExtIface(ls, ip, i) ==
    IF i > Len(ls) THEN [err |-> TRUE, iface |-> NilIface]
    ELSE LET j == FindAddr(ls[i].Addrs, ip, 1)
         IN  IF j > 0
             THEN [err |-> FALSE, iface |-> [IPNet |-> ls[i].Addrs[j], Link |-> ls[i]]]
             ELSE FindExtIface(ls, ip, i + 1)

GetNodeExtIface(node, ls) ==
    LET extIfaceIP == InternalIP(node)
    IN  IF extIfaceIP = <<>> THEN [err |-> TRUE, iface |-> NilIface]
        ELSE FindExtIface(ls, extIfaceIP, 1)

\* the address n steps of ip.NextIP after ip (no step for n <= 0)
RECURSIVE Advance(_, _)
Advance(ip, n) ==
    IF n <= 0 THEN ip
    ELSE IF n = 1 THEN NextIP(ip)
    ELSE LET part == Advance(ip, n \div 2)
         IN  IF part = <<>> THEN part ELSE Advance(part, n - (n \div 2))

\* CalcNodeVtepIPNet mutated: the loop takes one step more (i <= n)
CalcNodeVtepIPNetInclusive(node, vtepCIDR) ==
    LET a == Atoi(TrimPrefix(node.Name, "worker"))
    IN  IF a.err THEN [err |-> TRUE, net |-> NilIPNet]
        ELSE [err |-> FALSE,
              net |-> [IP |-> Advance(vtepCIDR.IP, a.n + 1), Mask |-> vtepCIDR.Mask]]

\* CalcNodeVtepIPNet: the VTEP address of the node, the base of the pool advanced by
\* the number that follows "worker" in the node's name
CalcNodeVtepIPNet(node, vtepCIDR) ==
    LET a == Atoi(TrimPrefix(node.Name, "worker"))
    IN  IF a.err THEN [err |-> TRUE, net |-> NilIPNet]
        ELSE [err |-> FALSE,
              net |-> [IP |-> Advance(vtepCIDR.IP, a.n), Mask |-> vtepCIDR.Mask]]

\* GetNodeDefaultGateway mutated: the first route is taken when there are several, and
\* its interface is not compared with the external interface
GetNodeDefaultGatewayRouteFirst(extIface, rs) ==
    IF Len(rs) = 0
    THEN [err |-> TRUE, gwIPNet |-> NilIPNet]
    ELSE [err |-> FALSE, gwIPNet |-> [IP |-> rs[1].Gw, Mask |-> extIface.IPNet.Mask]]

\* GetNodeDefaultGateway, up to the gateway's address: the next hop of the single route
\* to the probe address, which must leave by the external interface, with the prefix
\* length of the external interface's address
GetNodeDefaultGatewayRoute(extIface, rs) ==
    LET extIfaceLI == extIface.Link.Index
        route      == rs[1]
    IN  IF Len(rs) # 1
        THEN [err |-> TRUE, gwIPNet |-> NilIPNet]
        ELSE IF route.LinkIndex # extIfaceLI
        THEN [err |-> TRUE, gwIPNet |-> NilIPNet]
        ELSE [err |-> FALSE, gwIPNet |-> [IP |-> route.Gw, Mask |-> extIface.IPNet.Mask]]

RECURSIVE FindNeigh(_, _, _)
FindNeigh(ns, ip, i) ==
    IF i > Len(ns) THEN 0
    ELSE IF IPEqual(ns[i].IP, ip) THEN i
    ELSE FindNeigh(ns, ip, i + 1)

\* netlink.NeighList mutated: the entries of every interface
NeighListAll(ns, linkIndex) == ns

\* netlink.NeighList(linkIndex, FAMILY_V4): the entries of one interface
NeighList(ns, linkIndex) == SelectSeq(ns, LAMBDA n : n.LinkIndex = linkIndex)

\* GetNodeDefaultGateway, from the neighbor list on: the gateway with the hardware
\* address of the first neighbor that has the gateway's address
GetNodeDefaultGatewayNeigh(gwIPNet, list) ==
    LET i == FindNeigh(list, gwIPNet.IP, 1)
    IN  IF i = 0
        THEN [err |-> TRUE, gw |-> NilGwInfo]
        ELSE [err |-> FALSE, gw |-> [IPNet |-> gwIPNet, MAC |-> list[i].HardwareAddr]]

\* GetNode: the cluster's node of the configured name
GetNode ==
    /\ pc = "GetNode"
    /\ \E fault \in BOOLEAN :
         LET found == {i \in DOMAIN cluster : cluster[i].Name = conf.nodeName}
         IN  IF fault \/ found = {}
             THEN Fatal("ClusterQueryError") /\ nodeInfo' = nodeInfo
             ELSE /\ Goto("ParseNodePodCIDR")
                  /\ nodeInfo' = [nodeInfo EXCEPT
                                    !.kNode = cluster[CHOOSE i \in found : TRUE]]
    /\ Call("GetNode", conf.nodeName, "", "")
    /\ UNCHANGED <<static, effects, conf, link, k, nodes, idx, peer>>

BuildPodCIDR ==
    /\ pc = "ParseNodePodCIDR"
    /\ LET r == ParseNodePodCIDR(nodeInfo.kNode)
       IN  IF r.err
           THEN Fatal("AddressFormatError") /\ nodeInfo' = nodeInfo
           ELSE /\ Goto("CalcNodePodDefaultGateway")
                /\ nodeInfo' = [nodeInfo EXCEPT !.podCIDR = r.podCIDR]
    /\ UNCHANGED <<static, effects, conf, link, k, nodes, idx, peer, calls>>

BuildPodGateway ==
    /\ pc = "CalcNodePodDefaultGateway"
    /\ nodeInfo' = [nodeInfo EXCEPT
                      !.podGwInfo = CalcNodePodDefaultGateway(nodeInfo.podCIDR)]
    /\ Goto("GetNodeExtIface")
    /\ UNCHANGED <<static, effects, conf, link, k, nodes, idx, peer, calls>>

BuildExtIface ==
    /\ pc = "GetNodeExtIface"
    /\ IF InternalIP(nodeInfo.kNode) = <<>>
       THEN /\ Fatal("InterfaceNotFoundError")
            /\ UNCHANGED <<nodeInfo, calls>>
       ELSE /\ \E fault \in BOOLEAN :
                 LET r == GetNodeExtIface(nodeInfo.kNode, links)
                 IN  IF fault
                     THEN Fatal("KernelQueryError") /\ nodeInfo' = nodeInfo
                     ELSE IF r.err
                     THEN Fatal("InterfaceNotFoundError") /\ nodeInfo' = nodeInfo
                     ELSE /\ Goto("CalcNodeVtepIPNet")
                          /\ nodeInfo' = [nodeInfo EXCEPT !.extIface = r.iface]
            /\ Call("LinkList", "", "", "")
    /\ UNCHANGED <<static, effects, conf, link, k, nodes, idx, peer>>

BuildVtep ==
    /\ pc = "CalcNodeVtepIPNet"
    /\ LET r == CalcNodeVtepIPNet(nodeInfo.kNode, conf.vtepCIDR)
       IN  IF r.err
           THEN Fatal("AddressDerivationError") /\ nodeInfo' = nodeInfo
           ELSE /\ Goto("GetNodeDefaultGateway")
                /\ nodeInfo' = [nodeInfo EXCEPT !.nodeVtepIPNet = r.net]
    /\ UNCHANGED <<static, effects, conf, link, k, nodes, idx, peer, calls>>

BuildNodeGateway ==
    /\ pc = "GetNodeDefaultGateway"
    /\ \E fault \in BOOLEAN :
         LET r == GetNodeDefaultGatewayRoute(nodeInfo.extIface, routes)
         IN  IF fault
             THEN Fatal("KernelQueryError")
             ELSE IF r.err
             THEN Fatal("RouteAmbiguityError")
             ELSE Goto("NeighList")
    /\ Call("RouteGet", "", "1.0.0.0", "")
    /\ UNCHANGED <<static, effects, conf, nodeInfo, link, k, nodes, idx, peer>>

\* GetNodeDefaultGateway: netlink.NeighList of the external interface and the search
\* of the gateway in it; BuildNodeInfo then returns the NodeInfo
BuildNodeGatewayMAC ==
    /\ pc = "NeighList"
    /\ \E fault \in BOOLEAN :
         LET extIfaceLI == nodeInfo.extIface.Link.Index
             gwIPNet    == GetNodeDefaultGatewayRoute(nodeInfo.extIface, routes).gwIPNet
             r          == GetNodeDefaultGatewayNeigh(gwIPNet, NeighList(neighs, extIfaceLI))
         IN  /\ IF fault
                THEN Fatal("KernelQueryError") /\ nodeInfo' = nodeInfo
                ELSE IF r.err
                THEN Fatal("GatewayMacUnresolvedError") /\ nodeInfo' = nodeInfo
                ELSE /\ Goto(MainReturn("BuildNodeInfo"))
                     /\ nodeInfo' = [nodeInfo EXCEPT !.nodeGwInfo = r.gw,
                                                     !.name = conf.nodeName]
             /\ Call("NeighList", nodeInfo.extIface.Link.Name, "", "")
    /\ UNCHANGED <<static, effects, conf, link, k, nodes, idx, peer>>

(***************************************************************************)
(* The VXLAN interface (CreateNodeVxlanIface).                             *)
(***************************************************************************)
LinkExists(ls, name) == \E i \in DOMAIN ls : ls[i].Name = name

LinkNamed(ls, name) == ls[CHOOSE i \in DOMAIN ls : ls[i].Name = name]

RECURSIVE MaxIndex(_, _)
MaxIndex(ls, i) ==
    IF i > Len(ls) THEN 0
    ELSE LET m == MaxIndex(ls, i + 1)
         IN  IF ls[i].Index > m THEN ls[i].Index ELSE m

\* a LinkAdd that takes a device of the same name over, which netlink.LinkAdd does not
VxlanLinkAddReuse ==
    /\ pc = "LinkAdd"
    /\ \E fault \in BOOLEAN :
         IF fault
         THEN Fatal("InterfaceCreationError") /\ links' = links
         ELSE IF LinkExists(links, conf.vxlanIfName)
         THEN Goto("LinkByName") /\ links' = links
         ELSE /\ Goto("LinkByName")
              /\ links' = Append(links,
                    [Name         |-> conf.vxlanIfName,
                     Index        |-> MaxIndex(links, 1) + 1,
                     HardwareAddr |-> <<2, 0, 0, 0, 0, MaxIndex(links, 1) + 1>>,
                     Up           |-> FALSE,
                     Addrs        |-> <<>>,
                     Vxlan        |-> [VxlanId      |-> 42,
                                       VtepDevIndex |-> nodeInfo.extIface.Link.Index,
                                       Port         |-> 4789]])
    /\ Call("LinkAdd", conf.vxlanIfName, "", "")
    /\ UNCHANGED <<static, neighs, cubes, file, conf, nodeInfo, link, k, nodes, idx, peer>>

\* netlink.LinkAdd of the vxlan device: the kernel refuses a name that is in use
VxlanLinkAdd ==
    /\ pc = "LinkAdd"
    /\ \E fault \in BOOLEAN :
         IF fault \/ LinkExists(links, conf.vxlanIfName)
         THEN Fatal("InterfaceCreationError") /\ links' = links
         ELSE /\ Goto("LinkByName")
              /\ links' = Append(links,
                    [Name         |-> conf.vxlanIfName,
                     Index        |-> MaxIndex(links, 1) + 1,
                     HardwareAddr |-> <<2, 0, 0, 0, 0, MaxIndex(links, 1) + 1>>,
                     Up           |-> FALSE,
                     Addrs        |-> <<>>,
                     Vxlan        |-> [VxlanId      |-> 42,
                                       VtepDevIndex |-> nodeInfo.extIface.Link.Index,
                                       Port         |-> 4789]])
    /\ Call("LinkAdd", conf.vxlanIfName, "", "")
    /\ UNCHANGED <<static, neighs, cubes, file, conf, nodeInfo, link, k, nodes, idx, peer>>

\* netlink.LinkByName of the vxlan device
VxlanLinkByName ==
    /\ pc = "LinkByName"
    /\ \E fault \in BOOLEAN :
         IF fault \/ ~LinkExists(links, conf.vxlanIfName)
         THEN Fatal("InterfaceCreationError") /\ link' = link
         ELSE Goto("LinkSetUp") /\ link' = LinkNamed(links, conf.vxlanIfName)
    /\ Call("LinkByName", conf.vxlanIfName, "", "")
    /\ UNCHANGED <<static, effects, conf, nodeInfo, k, nodes, idx, peer>>

\* netlink.LinkSetUp
VxlanLinkSetUp ==
    /\ pc = "LinkSetUp"
    /\ \E fault \in BOOLEAN :
         IF fault
         THEN Fatal("InterfaceCreationError") /\ links' = links
         ELSE /\ Goto("AddrAdd")
              /\ links' = [i \in DOMAIN links |->
                             IF links[i].Index = link.Index
                             THEN [links[i] EXCEPT !.Up = TRUE]
                             ELSE links[i]]
    /\ Call("LinkSetUp", link.Name, "", "")
    /\ UNCHANGED <<static, neighs, cubes, file, conf, nodeInfo, link, k, nodes, idx, peer>>

\* netlink.AddrAdd of the VTEP address: the kernel refuses an address the device has
VxlanAddrAdd ==
    /\ pc = "AddrAdd"
    /\ \E fault \in BOOLEAN :
         LET cur == LinkNamed(links, link.Name)
             has == \E j \in DOMAIN cur.Addrs : cur.Addrs[j] = nodeInfo.nodeVtepIPNet
         IN  IF fault \/ has
             THEN Fatal("InterfaceCreationError") /\ links' = links
             ELSE /\ Goto(MainReturn("CreateNodeVxlanIface"))
                  /\ links' = [i \in DOMAIN links |->
                                 IF links[i].Index = link.Index
                                 THEN [links[i] EXCEPT
                                         !.Addrs = Append(@, nodeInfo.nodeVtepIPNet)]
                                 ELSE links[i]]
    /\ Call("AddrAdd", link.Name, IPNetString(nodeInfo.nodeVtepIPNet), "")
    /\ UNCHANGED <<static, neighs, cubes, file, conf, nodeInfo, link, k, nodes, idx, peer>>

(***************************************************************************)
(* The polycube management API, as the daemon answers it.                  *)
(***************************************************************************)
NoPort(name, type) == [Name |-> name, Peer |-> "", Ip |-> "", Mac |-> "", Type |-> type]

HasPort(cube, port) == \E i \in DOMAIN cube.ports : cube.ports[i].Name = port

PortOf(cube, port) == cube.ports[CHOOSE i \in DOMAIN cube.ports : cube.ports[i].Name = port]

\* a cube of the given service and name exists
CubeExists(cs, service, name) == name \in DOMAIN cs /\ cs[name].service = service

\* what a port's peer names exists: the port of a cube ("cube:port") or a net device
PeerExists(cs, ls, p) ==
    LET c == Index(p, ":")
    IN  IF c > 0
        THEN /\ SubSeq(p, 1, c - 1) \in DOMAIN cs
             /\ HasPort(cs[SubSeq(p, 1, c - 1)], SubSeq(p, c + 1, Len(p)))
        ELSE LinkExists(ls, p)

\* Create<Service>ByID is accepted: cube names are unique over all services
CreateAccepted(cs, name) == name \notin DOMAIN cs

\* Update<Service>PortsByID setting a peer is accepted
UpdatePeerAccepted(cs, ls, service, name, port, p) ==
    /\ CubeExists(cs, service, name)
    /\ HasPort(cs[name], port)
    /\ PeerExists(cs, ls, p)

SetPeer(cube, port, p) ==
    [cube EXCEPT !.ports = [i \in DOMAIN @ |->
                              IF @[i].Name = port THEN [@[i] EXCEPT !.Peer = p] ELSE @[i]]]

(***************************************************************************)
(* The cubes (polycube.go).                                                *)
(***************************************************************************)
\* CreateBridge: the body of the create call
BridgeBody(name) ==
    [name |-> name, service |-> "simplebridge", ports |-> <<NoPort("to_r0", "")>>,
     route |-> <<>>, arp |-> <<>>, clientSubnet |-> ""]

\* CreateRouter: the body of the create call
RouterBody(name, extIface, podsGwInfo, nodeGwInfo) ==
    [name |-> name, service |-> "router",
     ports   |-> <<[NoPort("to_br0", "") EXCEPT
                      !.Ip  = IPNetString(podsGwInfo.IPNet),
                      !.Mac = MACString(podsGwInfo.MAC)],
                   NoPort("to_vxlan0", ""),
                   [NoPort("to_lbrp0", "") EXCEPT
                      !.Ip  = IPNetString(extIface.IPNet),
                      !.Mac = MACString(extIface.Link.HardwareAddr)]>>,
     route   |-> <<[Network    |-> "0.0.0.0/0",
                    Nexthop    |-> IPString(nodeGwInfo.IPNet.IP),
                    Interface_ |-> "to_lbrp0"]>>,
     arp     |-> <<[Address    |-> IPString(nodeGwInfo.IPNet.IP),
                    Mac        |-> MACString(nodeGwInfo.MAC),
                    Interface_ |-> "to_lbrp0"]>>,
     clientSubnet |-> ""]

\* CreateLbrp: the body of the create call
LbrpBody(name) ==
    [name |-> name, service |-> "lbrp",
     ports   |-> <<NoPort("to_r0", "backend"), NoPort("to_k0", "frontend")>>,
     route |-> <<>>, arp |-> <<>>, clientSubnet |-> ""]

\* CreateK8sDispatcher: the body of the create call
K8sDispatcherBody(name, podCIDR) ==
    [name |-> name, service |-> "k8sdispatcher", ports |-> <<NoPort("to_lbrp0", "BACKEND")>>,
     route |-> <<>>, arp |-> <<>>, clientSubnet |-> IPNetString(podCIDR)]

\* the datapath gives a MAC to every router port created without one
AssignMACs(cube, m) ==
    [cube EXCEPT !.ports = [i \in DOMAIN @ |->
                              IF @[i].Mac = "" THEN [@[i] EXCEPT !.Mac = m] ELSE @[i]]]

CreateBridge ==
    /\ pc = "CreateBridge"
    /\ \E fault \in BOOLEAN :
         IF fault \/ ~CreateAccepted(cubes, conf.bridgeName)
         THEN Fatal("ManagementApiError") /\ cubes' = cubes
         ELSE /\ Goto(CubesReturn("CreateBridge"))
              /\ cubes' = (conf.bridgeName :> BridgeBody(conf.bridgeName)) @@ cubes
    /\ Call("CreateSimplebridgeByID", conf.bridgeName, "", "")
    /\ UNCHANGED <<static, links, neighs, file, conf, nodeInfo, link, k, nodes, idx, peer>>

CreateRouter ==
    /\ pc = "CreateRouter"
    /\ \E fault \in BOOLEAN, m \in DatapathMACs :
         IF fault \/ ~CreateAccepted(cubes, conf.routerName)
         THEN Fatal("ManagementApiError") /\ cubes' = cubes
         ELSE /\ Goto(CubesReturn("CreateRouter"))
              /\ cubes' = (conf.routerName :>
                             AssignMACs(RouterBody(conf.routerName, nodeInfo.extIface,
                                                   nodeInfo.podGwInfo,
                                                   nodeInfo.nodeGwInfo), m)) @@ cubes
    /\ Call("CreateRouterByID", conf.routerName, "", "")
    /\ UNCHANGED <<static, links, neighs, file, conf, nodeInfo, link, k, nodes, idx, peer>>

CreateLbrp ==
    /\ pc = "CreateLbrp"
    /\ \E fault \in BOOLEAN :
         IF fault \/ ~CreateAccepted(cubes, conf.lbrpName)
         THEN Fatal("ManagementApiError") /\ cubes' = cubes
         ELSE /\ Goto(CubesReturn("CreateLbrp"))
              /\ cubes' = (conf.lbrpName :> LbrpBody(conf.lbrpName)) @@ cubes
    /\ Call("CreateLbrpByID", conf.lbrpName, "", "")
    /\ UNCHANGED <<static, links, neighs, file, conf, nodeInfo, link, k, nodes, idx, peer>>

\* CreateK8sDispatcher, the create call
CreateK8sDispatcher ==
    /\ pc = "CreateK8sDispatcher"
    /\ \E fault \in BOOLEAN :
         IF fault \/ ~CreateAccepted(cubes, conf.k8sDispName)
         THEN Fatal("ManagementApiError") /\ cubes' = cubes
         ELSE /\ Goto("CreateK8sDispatcherPort")
              /\ cubes' = (conf.k8sDispName :>
                             K8sDispatcherBody(conf.k8sDispName, nodeInfo.podCIDR)) @@ cubes
    /\ Call("CreateK8sdispatcherByID", conf.k8sDispName, "", "")
    /\ UNCHANGED <<static, links, neighs, file, conf, nodeInfo, link, k, nodes, idx, peer>>

\* CreateK8sDispatcher, the call that adds the port to_int
CreateK8sDispatcherPort ==
    /\ pc = "CreateK8sDispatcherPort"
    /\ \E fault \in BOOLEAN :
         IF \/ fault
            \/ ~CubeExists(cubes, "k8sdispatcher", conf.k8sDispName)
            \/ HasPort(cubes[conf.k8sDispName], "to_int")
         THEN Fatal("ManagementApiError") /\ cubes' = cubes
         ELSE /\ Goto(CubesReturn("CreateK8sDispatcher"))
              /\ cubes' = [cubes EXCEPT ![conf.k8sDispName].ports =
                                          Append(@, NoPort("to_int", "FRONTEND"))]
    /\ Call("CreateK8sdispatcherPortsByID", conf.k8sDispName, "to_int", "")
    /\ UNCHANGED <<static, links, neighs, file, conf, nodeInfo, link, k, nodes, idx, peer>>

\* ConnectCubes mutated: the peer of the lbrp's port to_r0 is the one computed for the
\* router's port to_br0 earlier in the function
ConnectStepsCopyPaste(c, extIface) ==
    <<[service |-> "simplebridge", cube |-> c.bridgeName, port |-> "to_r0",
       peer |-> CreatePeer(c.routerName, "to_br0")],
      [service |-> "router", cube |-> c.routerName, port |-> "to_br0",
       peer |-> CreatePeer(c.bridgeName, "to_r0")],
      [service |-> "router", cube |-> c.routerName, port |-> "to_vxlan0",
       peer |-> "vxlan0"],
      [service |-> "router", cube |-> c.routerName, port |-> "to_lbrp0",
       peer |-> CreatePeer(c.lbrpName, "to_r0")],
      [service |-> "lbrp", cube |-> c.lbrpName, port |-> "to_r0",
       peer |-> CreatePeer(c.bridgeName, "to_r0")],
      [service |-> "lbrp", cube |-> c.lbrpName, port |-> "to_k0",
       peer |-> CreatePeer(c.k8sDispName, "to_lbrp0")],
      [service |-> "k8sdispatcher", cube |-> c.k8sDispName, port |-> "to_lbrp0",
       peer |-> CreatePeer(c.lbrpName, "to_k0")],
      [service |-> "k8sdispatcher", cube |-> c.k8sDispName, port |-> "to_int",
       peer |-> extIface.Link.Name]>>

\* ConnectCubes: its calls in the order of its statements, each setting the peer of
\* one port of one cube
ConnectSteps(c, extIface) ==
    <<[service |-> "simplebridge", cube |-> c.bridgeName, port |-> "to_r0",
       peer |-> CreatePeer(c.routerName, "to_br0")],
      [service |-> "router", cube |-> c.routerName, port |-> "to_br0",
       peer |-> CreatePeer(c.bridgeName, "to_r0")],
      [service |-> "router", cube |-> c.routerName, port |-> "to_vxlan0",
       peer |-> "vxlan0"],
      [service |-> "router", cube |-> c.routerName, port |-> "to_lbrp0",
       peer |-> CreatePeer(c.lbrpName, "to_r0")],
      [service |-> "lbrp", cube |-> c.lbrpName, port |-> "to_r0",
       peer |-> CreatePeer(c.routerName, "to_lbrp0")],
      [service |-> "lbrp", cube |-> c.lbrpName, port |-> "to_k0",
       peer |-> CreatePeer(c.k8sDispName, "to_lbrp0")],
      [service |-> "k8sdispatcher", cube |-> c.k8sDispName, port |-> "to_lbrp0",
       peer |-> CreatePeer(c.lbrpName, "to_k0")],
      [service |-> "k8sdispatcher", cube |-> c.k8sDispName, port |-> "to_int",
       peer |-> extIface.Link.Name]>>

\* ConnectCubes: the next of its calls
ConnectCubes ==
    /\ pc = "ConnectCubes"
    /\ LET steps == ConnectSteps(conf, nodeInfo.extIface)
           s     == steps[k]
       IN  /\ \E fault \in BOOLEAN :
                IF fault \/ ~UpdatePeerAccepted(cubes, links, s.service, s.cube, s.port, s.peer)
                THEN Fatal("ManagementApiError") /\ cubes' = cubes /\ k' = k
                ELSE /\ cubes' = [cubes EXCEPT ![s.cube] = SetPeer(@, s.port, s.peer)]
                     /\ IF k = Len(steps)
                        THEN Goto(CubesReturn("ConnectCubes")) /\ k' = 1
                        ELSE Goto("ConnectCubes") /\ k' = k + 1
           /\ Call("UpdatePortsByID", s.cube, s.port, s.peer)
    /\ UNCHANGED <<static, links, neighs, file, conf, nodeInfo, link, nodes, idx, peer>>

(***************************************************************************)
(* The pod gateway's MAC and the CNI configuration file.                   *)
(***************************************************************************)
\* GetNodePodDefaultGatewayMAC: the MAC of the first port named to_br0 of the router
RECURSIVE FindPort(_, _, _)
FindPort(ports, name, i) ==
    IF i > Len(ports) THEN 0
    ELSE IF ports[i].Name = name THEN i
    ELSE FindPort(ports, name, i + 1)

GetNodePodDefaultGatewayMAC(r) ==
    LET i == FindPort(r.ports, "to_br0", 1)
    IN  IF i = 0 THEN [err |-> TRUE, mac |-> <<>>]
        ELSE ParseMAC(r.ports[i].Mac)

\* main: the MAC read back from the router completes nodeInfo.podGwInfo
BackfillPodGwMAC ==
    /\ pc = "GetNodePodDefaultGatewayMAC"
    /\ \E fault \in BOOLEAN :
         IF fault \/ ~CubeExists(cubes, "router", conf.routerName)
         THEN Fatal("ManagementApiError") /\ nodeInfo' = nodeInfo
         ELSE LET r == GetNodePodDefaultGatewayMAC(cubes[conf.routerName])
              IN  IF r.err
                  THEN Fatal("ManagementApiError") /\ nodeInfo' = nodeInfo
                  ELSE /\ Goto(MainReturn("GetNodePodDefaultGatewayMAC"))
                       /\ nodeInfo' = [nodeInfo EXCEPT !.podGwInfo.MAC = r.mac]
    /\ Call("ReadRouterByID", conf.routerName, "", "")
    /\ UNCHANGED <<static, effects, conf, link, k, nodes, idx, peer>>

\* CreateCNIConfFile mutated: the range ends at the gateway's address
CNIConfOfRangeToGateway(c, info) ==
    LET podCIDR  == info.podCIDR
        podGwIP  == info.podGwInfo.IPNet.IP
        podGwMAC == info.podGwInfo.MAC
    IN  [MTU          |-> c.MTU,
         vclustercidr |-> IPNetString(c.vClusterCIDR),
         bridge       |-> c.bridgeName,
         gatewayIP    |-> IPString(podGwIP),
         gatewayMAC   |-> MACString(podGwMAC),
         subnet       |-> IPNetString(podCIDR),
         rangeStart   |-> IPString(NextIP(podCIDR.IP)),
         rangeEnd     |-> IPString(podGwIP),
         gateway      |-> IPString(podGwIP)]

\* CreateCNIConfFile: the values formatted into confFormat
CNIConfOf(c, info) ==
    LET podCIDR  == info.podCIDR
        podGwIP  == info.podGwInfo.IPNet.IP
        podGwMAC == info.podGwInfo.MAC
    IN  [MTU          |-> c.MTU,
         vclustercidr |-> IPNetString(c.vClusterCIDR),
         bridge       |-> c.bridgeName,
         gatewayIP    |-> IPString(podGwIP),
         gatewayMAC   |-> MACString(podGwMAC),
         subnet       |-> IPNetString(podCIDR),
         rangeStart   |-> IPString(NextIP(podCIDR.IP)),
         rangeEnd     |-> IPString(PrevIP(podGwIP)),
         gateway      |-> IPString(podGwIP)]

\* CreateCNIConfFile: os.Create makes the file, or empties the one that is there
CreateCNIConfFile ==
    /\ pc = "CreateCNIConfFile"
    /\ \E fault \in BOOLEAN :
         IF fault
         THEN Fatal("ConfigFileError") /\ file' = file
         ELSE Goto("WriteCNIConfFile") /\ file' = [exists |-> TRUE, content |-> <<>>]
    /\ Call("os.Create", conf.CNIConfFilePath, "", "")
    /\ UNCHANGED <<static, links, neighs, cubes, conf, nodeInfo, link, k, nodes, idx, peer>>

\* CreateCNIConfFile: fmt.Fprintf writes the configuration
WriteCNIConfFile ==
    /\ pc = "WriteCNIConfFile"
    /\ \E fault \in BOOLEAN :
         IF fault
         THEN Fatal("ConfigFileError") /\ file' = file
         ELSE /\ Goto(MainReturn("CreateCNIConfFile"))
              /\ file' = [exists |-> TRUE, content |-> <<CNIConfOf(conf, nodeInfo)>>]
    /\ Call("Fprintf", conf.CNIConfFilePath, "", "")
    /\ UNCHANGED <<static, links, neighs, cubes, conf, nodeInfo, link, k, nodes, idx, peer>>

(***************************************************************************)
(* The reachability of the other nodes (addOtherNodes, AddNode).           *)
(***************************************************************************)
\* addOtherNodes mutated: the local node is not told apart from the others
IsOtherNodeAnyWorker(node, c) == HasPrefix(node.Name, "worker")

\* addOtherNodes mutated: only the workers numbered after the local node are added
IsOtherNodeAfterLocal(node, c) ==
    /\ HasPrefix(node.Name, "worker")
    /\ Atoi(TrimPrefix(node.Name, "worker")).n > Atoi(TrimPrefix(c.nodeName, "worker")).n

\* addOtherNodes: the nodes it adds are the other nodes named worker...
IsOtherNode(node, c) == HasPrefix(node.Name, "worker") /\ node.Name # c.nodeName

\* AddNode: the router its route is created on
AddNodeRouterName == "r0"

\* a route to the node's pods whose next hop is not the node's VTEP address
AddNodeRouteViaPodNet(nodePodCIDR, nodeVtepIP) ==
    [Network    |-> IPNetString(nodePodCIDR),
     Nexthop    |-> IPString(nodePodCIDR.IP),
     Interface_ |-> "to_vxlan0"]

\* AddNode: the route to the node's pods
AddNodeRoute(nodePodCIDR, nodeVtepIP) ==
    [Network    |-> IPNetString(nodePodCIDR),
     Nexthop    |-> IPString(nodeVtepIP),
     Interface_ |-> "to_vxlan0"]

\* CreateRouterRouteByID is accepted: the router exists, has the port and not the route
RouteAccepted(cs, name, route) ==
    /\ CubeExists(cs, "router", name)
    /\ HasPort(cs[name], route.Interface_)
    /\ ~\E i \in DOMAIN cs[name].route :
          /\ cs[name].route[i].Network = route.Network
          /\ cs[name].route[i].Nexthop = route.Nexthop

\* addOtherNodes: the list of the cluster's nodes
ListNodes ==
    /\ pc = "ListNodes"
    /\ \E fault \in BOOLEAN :
         IF fault
         THEN Fatal("ClusterQueryError") /\ nodes' = nodes /\ idx' = idx
         ELSE Goto("NextNode") /\ nodes' = cluster /\ idx' = 1
    /\ Call("ListNodes", "", "", "")
    /\ UNCHANGED <<static, effects, conf, nodeInfo, link, k, peer>>

\* addOtherNodes: the head of the loop over the nodes, up to the call of AddNode
NextNode ==
    /\ pc = "NextNode"
    /\ IF idx > Len(nodes)
       THEN Goto(MainReturn("addOtherNodes")) /\ UNCHANGED <<idx, peer>>
       ELSE LET node == nodes[idx]
                cidr == ParseCIDR(node.PodCIDR)
                vtep == CalcNodeVtepIPNet(node, conf.vtepCIDR)
            IN  IF ~IsOtherNode(node, conf)
                THEN Goto("NextNode") /\ idx' = idx + 1 /\ peer' = peer
                ELSE IF cidr.err
                THEN Fatal("AddressFormatError") /\ UNCHANGED <<idx, peer>>
                ELSE IF vtep.err
                THEN Fatal("AddressDerivationError") /\ UNCHANGED <<idx, peer>>
                ELSE /\ Goto("AddNodeLinkByName")
                     /\ idx' = idx
                     /\ peer' = [name        |-> node.Name,
                                 nodeIP      |-> InternalIP(node),
                                 nodePodCIDR |-> cidr.net,
                                 nodeVtepIP  |-> vtep.net.IP]
    /\ UNCHANGED <<static, effects, conf, nodeInfo, link, k, nodes, calls>>

\* AddNode: netlink.LinkByName of the vxlan device
AddNodeLinkByName ==
    /\ pc = "AddNodeLinkByName"
    /\ \E fault \in BOOLEAN :
         IF fault \/ ~LinkExists(links, conf.vxlanIfName)
         THEN Fatal("InterfaceNotFoundError") /\ link' = link
         ELSE Goto("AddNodeNeighAppend") /\ link' = LinkNamed(links, conf.vxlanIfName)
    /\ Call("LinkByName", conf.vxlanIfName, "", "")
    /\ UNCHANGED <<static, effects, conf, nodeInfo, k, nodes, idx, peer>>

\* AddNode: netlink.NeighAppend of the permanent entry for the node's IP
AddNodeNeighAppend ==
    /\ pc = "AddNodeNeighAppend"
    /\ \E fault \in BOOLEAN :
         IF fault
         THEN Fatal("ForwardingEntryError") /\ neighs' = neighs
         ELSE /\ Goto("AddNodeCreateRoute")
              /\ neighs' = Append(neighs,
                    [LinkIndex    |-> link.Index,
                     IP           |-> peer.nodeIP,
                     State        |-> "PERMANENT",
                     HardwareAddr |-> <<0, 0, 0, 0, 0, 0>>])
    /\ Call("NeighAppend", link.Name, IPString(peer.nodeIP), "")
    /\ UNCHANGED <<static, links, cubes, file, conf, nodeInfo, link, k, nodes, idx, peer>>

\* a transactional AddNode, which the code is not: a failed route creation takes the
\* forwarding entry back
AddNodeCreateRouteRollback ==
    /\ pc = "AddNodeCreateRoute"
    /\ LET route == AddNodeRoute(peer.nodePodCIDR, peer.nodeVtepIP)
       IN  /\ \E fault \in BOOLEAN :
                IF fault \/ ~RouteAccepted(cubes, AddNodeRouterName, route)
                THEN /\ Fatal("ManagementApiError")
                     /\ cubes' = cubes
                     /\ idx' = idx
                     /\ neighs' = SubSeq(neighs, 1, Len(neighs) - 1)
                ELSE /\ Goto("NextNode")
                     /\ idx' = idx + 1
                     /\ cubes' = [cubes EXCEPT ![AddNodeRouterName].route = Append(@, route)]
                     /\ neighs' = neighs
           /\ Call("CreateRouterRouteByID", AddNodeRouterName, route.Network, route.Nexthop)
    /\ UNCHANGED <<static, links, file, conf, nodeInfo, link, k, nodes, peer>>

\* AddNode: CreateRouterRouteByID of the route to the node's pods; addOtherNodes then
\* goes on with the next node
AddNodeCreateRoute ==
    /\ pc = "AddNodeCreateRoute"
    /\ LET route == AddNodeRoute(peer.nodePodCIDR, peer.nodeVtepIP)
       IN  /\ \E fault \in BOOLEAN :
                IF fault \/ ~RouteAccepted(cubes, AddNodeRouterName, route)
                THEN Fatal("ManagementApiError") /\ cubes' = cubes /\ idx' = idx
                ELSE /\ Goto("NextNode")
                     /\ idx' = idx + 1
                     /\ cubes' = [cubes EXCEPT ![AddNodeRouterName].route = Append(@, route)]
           /\ Call("CreateRouterRouteByID", AddNodeRouterName, route.Network, route.Nexthop)
    /\ UNCHANGED <<static, links, neighs, file, conf, nodeInfo, link, k, nodes, peer>>

(***************************************************************************)
(* The specification.                                                      *)
(***************************************************************************)
Init ==
    /\ host \in LocalOrdinals
    /\ env \in Environments(host)
    /\ cluster = Cluster
    /\ \E stale \in BOOLEAN :
         links = IF stale THEN <<Loopback, Uplink(host), StaleVxlan>>
                 ELSE <<Loopback, Uplink(host)>>
    /\ routes = ProbeRoutes
    /\ neighs \in NeighTables
    /\ cubes = <<>>
    /\ file = NoFile
    /\ conf = NilConf
    /\ nodeInfo = NilNodeInfo
    /\ link = NilLink
    /\ k = 1
    /\ nodes = <<>>
    /\ idx = 0
    /\ peer = NilPeer
    /\ pc = "GetEnvConf"
    /\ err = ""
    /\ calls = <<>>

\* the pod CIDRs a cluster can assign to a node: addresses with and without host
\* bits, under every prefix length of IPv4
PodCIDRBases == {"10.10.3.0", "10.10.3.77", "172.16.0.1", "192.168.255.255", "10.0.0.0"}

PrefixLens == 0..32

PodCIDRTexts == {b \o "/" \o Itoa(p) : b \in PodCIDRBases, p \in PrefixLens}

\* the start of a run on worker1 with the default configuration, in a cluster that
\* assigned the node any of the pod CIDRs
InitAddr ==
    /\ host = 1
    /\ env \in {e \in Environments(host) :
                  /\ e.NODE_VXLAN_IFACE_NAME = ""
                  /\ e.POLYCUBE_ROUTER_NAME = ""
                  /\ e.POLYCUBE_BRIDGE_NAME = ""}
    /\ \E c \in PodCIDRTexts :
         cluster = [i \in DOMAIN Cluster |->
                      IF Cluster[i].Name = "worker" \o Itoa(host)
                      THEN [Cluster[i] EXCEPT !.PodCIDR = c]
                      ELSE Cluster[i]]
    /\ links = <<Loopback, Uplink(host)>>
    /\ routes = ProbeRoutes
    /\ neighs \in NeighTables
    /\ cubes = <<>>
    /\ file = NoFile
    /\ conf = NilConf
    /\ nodeInfo = NilNodeInfo
    /\ link = NilLink
    /\ k = 1
    /\ nodes = <<>>
    /\ idx = 0
    /\ peer = NilPeer
    /\ pc = "GetEnvConf"
    /\ err = ""
    /\ calls = <<>>

\* names a cluster can give its nodes (DNS labels): worker followed by digits, by a
\* signed number or by something else, and names without the prefix
LocalNames ==
    {"worker1", "worker01", "worker256", "worker-1", "7", "worker", "workerx", "worker1a",
     "node1"}

PeerNameLists ==
    { <<"worker2", "worker02", "worker300">>,
      <<"worker-2", "worker3">>,
      <<"worker3", "worker2x">> }

\* the values of NODE_VTEP_CIDR ("" is unset)
VtepPools == {"", "10.18.0.0/16", "172.20.255.250/24"}

\* the j-th node of a cluster beside the control-plane node
NodeNamed(name, j) ==
    [Name      |-> name,
     Addresses |-> <<[Type |-> "Hostname", Address |-> name],
                     [Type |-> "InternalIP", Address |-> "192.168.0." \o Itoa(10 + j)]>>,
     PodCIDR   |-> "10.10." \o Itoa(j) \o ".0/24"]

\* the start of a run on the first node of a cluster whose nodes have any of the names,
\* with any of the VTEP pools
InitNames ==
    /\ host = 1
    /\ \E name \in LocalNames, pool \in VtepPools, others \in PeerNameLists :
         /\ env \in {[e EXCEPT !.NODE_K8S_NAME = name, !.NODE_VTEP_CIDR = pool] :
                       e \in {d \in Environments(host) :
                                /\ d.NODE_VXLAN_IFACE_NAME = ""
                                /\ d.POLYCUBE_ROUTER_NAME = ""
                                /\ d.POLYCUBE_BRIDGE_NAME = ""}}
         /\ cluster = <<Master, NodeNamed(name, 1)>>
                         \o [j \in DOMAIN others |-> NodeNamed(others[j], j + 1)]
    /\ links = <<Loopback, Uplink(host)>>
    /\ routes = ProbeRoutes
    /\ neighs \in NeighTables
    /\ cubes = <<>>
    /\ file = NoFile
    /\ conf = NilConf
    /\ nodeInfo = NilNodeInfo
    /\ link = NilLink
    /\ k = 1
    /\ nodes = <<>>
    /\ idx = 0
    /\ peer = NilPeer
    /\ pc = "GetEnvConf"
    /\ err = ""
    /\ calls = <<>>

\* interfaces a machine can have beside the loopback and the uplink: one with unrelated
\* addresses, and one that holds the node's internal IP as its second address
Docker(index) ==
    [Name |-> "docker0", Index |-> index, HardwareAddr |-> <<2, 66, 0, 0, 0, index>>,
     Up |-> TRUE, Addrs |-> <<[IP |-> ParseIP("172.17.0.1"), Mask |-> CIDRMask(16, 4)]>>,
     Vxlan |-> NilVxlan]

Bond(n, index) ==
    [Name |-> "bond0", Index |-> index, HardwareAddr |-> <<82, 84, 0, 0, 1, 10 + n>>,
     Up |-> TRUE,
     Addrs |-> <<[IP |-> ParseIP("10.0.0.5"), Mask |-> CIDRMask(8, 4)],
                 [IP |-> ParseIP("192.168.0." \o Itoa(10 + n)), Mask |-> CIDRMask(16, 4)]>>,
     Vxlan |-> NilVxlan]

\* the answers of netlink.LinkList with netlink.AddrList, in enumeration order
LinkTables(n) ==
    { <<Loopback, Uplink(n)>>,
      <<Loopback, Uplink(n), Docker(3)>>,
      <<Loopback, Docker(2), [Uplink(n) EXCEPT !.Index = 3]>>,
      <<Loopback, Bond(n, 2), [Uplink(n) EXCEPT !.Index = 3]>>,
      <<Loopback, Uplink(n), Bond(n, 3)>>,
      <<Loopback, Docker(2)>> }

\* the answers of netlink.RouteGet: one route by interface 2, by interface 3 or by the
\* loopback, no route, and two routes
RouteAnswers ==
    { ProbeRoutes,
      <<[LinkIndex |-> 3, Gw |-> UplinkGwIP]>>,
      <<[LinkIndex |-> 1, Gw |-> UplinkGwIP]>>,
      <<>>,
      ProbeRoutes \o <<[LinkIndex |-> 3, Gw |-> UplinkGwIP]>> }

\* the neighbor tables: those of NeighTables, and tables where the gateway's address
\* has an entry on interface 3, alone or before the one on interface 2
NeighTablesWide ==
    LET on2 == [LinkIndex |-> 2, IP |-> UplinkGwIP, State |-> "REACHABLE",
                HardwareAddr |-> <<82, 84, 0, 0, 0, 1>>]
        on3 == [LinkIndex |-> 3, IP |-> UplinkGwIP, State |-> "STALE",
                HardwareAddr |-> <<82, 84, 0, 0, 3, 1>>]
    IN  NeighTables \cup { <<on3>>, <<on3, on2>> }

\* the addresses a cluster can report for worker n
AddressLists(n) ==
    LET name     == [Type |-> "Hostname", Address |-> "worker" \o Itoa(n)]
        internal == [Type |-> "InternalIP", Address |-> "192.168.0." \o Itoa(10 + n)]
        second   == [Type |-> "InternalIP", Address |-> "10.0.0.5"]
        external == [Type |-> "ExternalIP", Address |-> "172.17.0.1"]
    IN  { <<name, internal>>, <<external, internal, second>>, <<second, internal>>,
          <<name, external>> }

\* the start of a run with the default configuration on a machine with any of the
\* interface, route and neighbor tables, for a node with any of the address lists
InitKernel ==
    /\ host = 1
    /\ env \in {e \in Environments(host) :
                  /\ e.NODE_VXLAN_IFACE_NAME = ""
                  /\ e.POLYCUBE_ROUTER_NAME = ""
                  /\ e.POLYCUBE_BRIDGE_NAME = ""}
    /\ \E as \in AddressLists(host) :
         cluster = [i \in DOMAIN Cluster |->
                      IF Cluster[i].Name = "worker" \o Itoa(host)
                      THEN [Cluster[i] EXCEPT !.Addresses = as]
                      ELSE Cluster[i]]
    /\ links \in LinkTables(host)
    /\ routes \in RouteAnswers
    /\ neighs \in NeighTablesWide
    /\ cubes = <<>>
    /\ file = NoFile
    /\ conf = NilConf
    /\ nodeInfo = NilNodeInfo
    /\ link = NilLink
    /\ k = 1
    /\ nodes = <<>>
    /\ idx = 0
    /\ peer = NilPeer
    /\ pc = "GetEnvConf"
    /\ err = ""
    /\ calls = <<>>

\* what a cluster can advertise as the pod CIDR of worker n: an IPv4 CIDR, an IPv6
\* CIDR, nothing, or a text that is no CIDR
PodCIDRKinds == {"IPv4", "IPv6", "none", "malformed"}

PodCIDROfKind(n, kind) ==
    CASE kind = "IPv4"      -> "10.10." \o Itoa(n) \o ".0/24"
      [] kind = "IPv6"      -> "fd00:10:244:" \o Itoa(n) \o "::/64"
      [] kind = "none"      -> ""
      [] kind = "malformed" -> "10.10." \o Itoa(n) \o ".0/33"

\* the start of a run with the default names on worker1 of a cluster whose workers
\* advertise pod CIDRs of any kind
InitFamilies ==
    /\ host = 1
    /\ env \in {e \in Environments(host) :
                  /\ e.NODE_VXLAN_IFACE_NAME = ""
                  /\ e.POLYCUBE_ROUTER_NAME = ""
                  /\ e.POLYCUBE_BRIDGE_NAME = ""
                  /\ e.POLYCUBE_MTU = ""}
    /\ \E kinds \in [1..NumWorkers -> PodCIDRKinds] :
         cluster = <<Master>> \o [n \in 1..NumWorkers |->
                                    [Worker(n) EXCEPT !.PodCIDR = PodCIDROfKind(n, kinds[n])]]
    /\ links = <<Loopback, Uplink(host)>>
    /\ routes = ProbeRoutes
    /\ neighs \in NeighTables
    /\ cubes = <<>>
    /\ file = NoFile
    /\ conf = NilConf
    /\ nodeInfo = NilNodeInfo
    /\ link = NilLink
    /\ k = 1
    /\ nodes = <<>>
    /\ idx = 0
    /\ peer = NilPeer
    /\ pc = "GetEnvConf"
    /\ err = ""
    /\ calls = <<>>

\* the forms in which a cluster advertises the pod CIDR of worker n: the network, an
\* address inside the network, a wider network
PodCIDRShapes == {"network", "address", "wide"}

PodCIDROfShape(n, shape) ==
    CASE shape = "network" -> "10.10." \o Itoa(n) \o ".0/24"
      [] shape = "address" -> "10.10." \o Itoa(n) \o ".77/24"
      [] shape = "wide"    -> "10." \o Itoa(n) \o ".0.0/16"

\* the start of a run on any worker of a cluster, every run with the same cluster and
\* any of the VTEP pools
InitPair ==
    /\ host \in 1..NumWorkers
    /\ \E pool \in VtepPools :
         env \in {[e EXCEPT !.NODE_VTEP_CIDR = pool] :
                    e \in {d \in Environments(host) :
                             /\ d.NODE_VXLAN_IFACE_NAME = ""
                             /\ d.POLYCUBE_ROUTER_NAME = ""
                             /\ d.POLYCUBE_BRIDGE_NAME = ""
                             /\ d.POLYCUBE_MTU = ""}}
    /\ \E shapes \in [1..NumWorkers -> PodCIDRShapes] :
         cluster = <<Master>> \o [n \in 1..NumWorkers |->
                                    [Worker(n) EXCEPT !.PodCIDR = PodCIDROfShape(n, shapes[n])]]
    /\ links = <<Loopback, Uplink(host)>>
    /\ routes = ProbeRoutes
    /\ neighs \in NeighTables
    /\ cubes = <<>>
    /\ file = NoFile
    /\ conf = NilConf
    /\ nodeInfo = NilNodeInfo
    /\ link = NilLink
    /\ k = 1
    /\ nodes = <<>>
    /\ idx = 0
    /\ peer = NilPeer
    /\ pc = "GetEnvConf"
    /\ err = ""
    /\ calls = <<>>

Next ==
    \/ GetEnvConf
    \/ GetNode
    \/ BuildPodCIDR
    \/ BuildPodGateway
    \/ BuildExtIface
    \/ BuildVtep
    \/ BuildNodeGateway
    \/ BuildNodeGatewayMAC
    \/ VxlanLinkAdd
    \/ VxlanLinkByName
    \/ VxlanLinkSetUp
    \/ VxlanAddrAdd
    \/ CreateBridge
    \/ CreateRouter
    \/ CreateLbrp
    \/ CreateK8sDispatcher
    \/ CreateK8sDispatcherPort
    \/ ConnectCubes
    \/ BackfillPodGwMAC
    \/ CreateCNIConfFile
    \/ WriteCNIConfFile
    \/ ListNodes
    \/ NextNode
    \/ AddNodeLinkByName
    \/ AddNodeNeighAppend
    \/ AddNodeCreateRoute

Spec == Init /\ [][Next]_vars
(***************************************************************************)
(* The same run beside another client of the daemon: the test script       *)
(* deletes cubes with polycubectl (test/add_test.sh).                      *)
(***************************************************************************)
\* polycubectl <cube> del while the bootstrap wires the cubes: the cube goes, and the
\* ports that had one of its ports as peer are disconnected
PolycubectlDel ==
    /\ pc = "ConnectCubes"
    /\ \E gone \in DOMAIN cubes :
         cubes' = [n \in DOMAIN cubes \ {gone} |->
                     [cubes[n] EXCEPT !.ports =
                        [i \in DOMAIN @ |->
                           IF HasPrefix(@[i].Peer, gone \o ":")
                           THEN [@[i] EXCEPT !.Peer = ""]
                           ELSE @[i]]]]
    /\ UNCHANGED <<static, links, neighs, file, conf, nodeInfo, link, k, nodes, idx, peer,
                   pc, err, calls>>

NextEnv ==
    \/ Next
    \/ PolycubectlDel

\* the program is started again after a run has ended, with the same environment: the
\* kernel's devices and entries, the cubes and the file are what the ended run left
Restart ==
    /\ pc \in {"exited", "done"}
    /\ conf' = NilConf
    /\ nodeInfo' = NilNodeInfo
    /\ link' = NilLink
    /\ k' = 1
    /\ nodes' = <<>>
    /\ idx' = 0
    /\ peer' = NilPeer
    /\ pc' = "GetEnvConf"
    /\ err' = ""
    /\ calls' = <<>>
    /\ UNCHANGED <<static, effects>>

NextRestart ==
    \/ Next
    \/ Restart

SpecRestart == Init /\ [][NextRestart]_vars

SpecAddr == InitAddr /\ [][Next]_vars

SpecNames == InitNames /\ [][Next]_vars

SpecKernel == InitKernel /\ [][Next]_vars

SpecFamilies == InitFamilies /\ [][Next]_vars

SpecPair == InitPair /\ [][Next]_vars

SpecEnv == Init /\ [][NextEnv]_vars

(***************************************************************************)
(* Properties.                                                             *)
(***************************************************************************)
LastCall(cs) == cs[Len(cs)]

\* the position of a call of main in the order the specification gives
StageRank(s) ==
    CASE s = "BuildNodeInfo"               -> 1
      [] s = "CreateNodeVxlanIface"        -> 2
      [] s = "CreateCubes"                 -> 3
      [] s = "GetNodePodDefaultGatewayMAC" -> 4
      [] s = "CreateCNIConfFile"           -> 5
      [] s = "addOtherNodes"               -> 6
      [] OTHER                             -> 0

\* the resolver has returned the node's addressing
Resolved ==
    /\ nodeInfo.name = conf.nodeName
    /\ nodeInfo.podCIDR # NilIPNet
    /\ nodeInfo.podGwInfo.IPNet # NilIPNet
    /\ nodeInfo.extIface # NilIface
    /\ nodeInfo.nodeVtepIPNet # NilIPNet
    /\ nodeInfo.nodeGwInfo.IPNet # NilIPNet

\* the VXLAN device of the configured name is there, up, with the VTEP address
VxlanReady ==
    \E i \in DOMAIN links :
       /\ links[i].Name = conf.vxlanIfName
       /\ links[i].Up
       /\ \E j \in DOMAIN links[i].Addrs : links[i].Addrs[j] = nodeInfo.nodeVtepIPNet

ConfiguredCubes == {conf.bridgeName, conf.routerName, conf.lbrpName, conf.k8sDispName}

\* the four cubes are there and each of their eight ports has a peer
CubesWired ==
    /\ ConfiguredCubes \subseteq DOMAIN cubes
    /\ \A n \in ConfiguredCubes : \A i \in DOMAIN cubes[n].ports : cubes[n].ports[i].Peer # ""
    /\ Cardinality({i \in DOMAIN calls : calls[i].op = "UpdatePortsByID" /\ calls[i].ok}) = 8

MacBackfilled == nodeInfo.podGwInfo.MAC # <<>>

FileWritten == file.content # <<>>

\* the stages of rank below r have completed
CompletedBelow(r) ==
    /\ r >= 2 => Resolved
    /\ r >= 3 => VxlanReady
    /\ r >= 4 => CubesWired
    /\ r >= 5 => MacBackfilled
    /\ r >= 6 => FileWritten

\* C1: the stages run in the order resolver, VXLAN interface, cubes, pod-gateway MAC,
\* configuration file, reachability: the calls issued never go back to an earlier
\* stage, and a stage issues a call or is entered only when every earlier stage has
\* completed with all its calls successful
C1_StageOrder ==
    /\ \A i, j \in DOMAIN calls :
          i < j => /\ StageRank(calls[i].by) <= StageRank(calls[j].by)
                   /\ calls[i].ok
    /\ \A i \in DOMAIN calls :
          StageRank(calls[i].by) >= 1 /\ CompletedBelow(StageRank(calls[i].by))
    /\ pc \notin {"GetEnvConf", "exited", "done"} =>
          StageRank(StageOf(pc)) >= 1 /\ CompletedBelow(StageRank(StageOf(pc)))
    /\ pc = "done" => CompletedBelow(6) /\ LastCall(calls).by = "addOtherNodes"

\* a run that went through the six stages to the end
C1_Witness ==
    /\ pc = "done"
    /\ \A r \in 1..6 : \E i \in DOMAIN calls : StageRank(calls[i].by) = r

\* C2: the first call that fails ends the run: it is the last call ever issued, the
\* process has exited with an error, and from then on nothing the run has applied
\* (devices, cubes, peers, forwarding entries, routes, file) changes; the failing step
\* itself undoes nothing
C2_FirstFailureIsFinal ==
    [][ /\ \A i \in DOMAIN calls' :
              ~calls'[i].ok => i = Len(calls') /\ pc' = "exited" /\ err' # ""
        /\ err # "" => UNCHANGED <<links, neighs, cubes, file, calls>>
        /\ (err = "" /\ err' # "") => UNCHANGED <<links, neighs, cubes, file>>
      ]_vars

\* a run ended by the failure of the route call of the first peer, with the VXLAN
\* device, the cubes, the file and the peer's forwarding entry left in place
C2_Witness ==
    /\ pc = "exited"
    /\ LastCall(calls).op = "CreateRouterRouteByID"
    /\ ~LastCall(calls).ok
    /\ VxlanReady
    /\ CubesWired
    /\ FileWritten
    /\ \E i \in DOMAIN neighs : neighs[i].State = "PERMANENT"

CreateOps ==
    {"CreateSimplebridgeByID", "CreateRouterByID", "CreateLbrpByID",
     "CreateK8sdispatcherByID"}

\* C3: a wiring call is issued only after the four creation calls have succeeded, and
\* a wiring call whose target cube or port does not exist ends the run with a
\* management-API error and sets no peer
C3_WiringAfterCreation ==
    [][ (calls' # calls /\ LastCall(calls').op = "UpdatePortsByID") =>
          LET c == LastCall(calls')
          IN  /\ \A op \in CreateOps :
                    \E i \in DOMAIN calls : calls[i].op = op /\ calls[i].ok
              /\ (c.on \notin DOMAIN cubes \/ ~HasPort(cubes[c.on], c.arg)) =>
                    /\ ~c.ok
                    /\ pc' = "exited"
                    /\ err' = "ManagementApiError"
                    /\ cubes' = cubes
      ]_vars

\* a run ended by a wiring call on a cube that was no longer there
C3_Witness ==
    /\ pc = "exited"
    /\ err = "ManagementApiError"
    /\ LastCall(calls).op = "UpdatePortsByID"
    /\ LastCall(calls).on \notin DOMAIN cubes
    /\ \A op \in CreateOps : \E i \in DOMAIN calls : calls[i].op = op /\ calls[i].ok

\* the text of a node's internal IP as the cluster reports it
InternalIPText(node) ==
    LET i == CHOOSE j \in DOMAIN node.Addresses : node.Addresses[j].Type = "InternalIP"
    IN  node.Addresses[i].Address

LocalNodes == {i \in DOMAIN cluster : cluster[i].Name = conf.nodeName}

\* the peers of the reachability pass: the other nodes of the list named worker...
PeerNodes ==
    {i \in DOMAIN cluster :
        HasPrefix(cluster[i].Name, "worker") /\ cluster[i].Name # conf.nodeName}

\* the forwarding entries appended for a node on the VXLAN interface, and the calls
FdbCalls(node) ==
    {i \in DOMAIN calls :
        /\ calls[i].op = "NeighAppend"
        /\ calls[i].on = conf.vxlanIfName
        /\ calls[i].arg = InternalIPText(node)}

FdbEntries(node) ==
    {i \in DOMAIN neighs :
        /\ neighs[i].State = "PERMANENT"
        /\ LinkExists(links, conf.vxlanIfName)
        /\ neighs[i].LinkIndex = LinkNamed(links, conf.vxlanIfName).Index
        /\ neighs[i].IP = ParseIP(InternalIPText(node))}

\* the routes to a node's pod CIDR on the routers, and the calls
RouteCalls(node) ==
    {i \in DOMAIN calls :
        calls[i].op = "CreateRouterRouteByID" /\ calls[i].arg = node.PodCIDR}

RouteEntries(node) ==
    UNION { {<<n, i>> : i \in {j \in DOMAIN cubes[n].route :
                                    cubes[n].route[j].Network = node.PodCIDR}} :
            n \in DOMAIN cubes }

\* C4: when the reachability pass has succeeded, every peer has exactly one forwarding
\* entry on the VXLAN interface and exactly one router route, each from exactly one
\* call; at no time has a peer two of either, and at no time is there a forwarding
\* entry, a route or a call of either kind for the local node
C4_OnePerPeerNoneForLocal ==
    /\ pc = "done" =>
          \A i \in PeerNodes :
             /\ Cardinality(FdbCalls(cluster[i])) = 1
             /\ Cardinality(FdbEntries(cluster[i])) = 1
             /\ Cardinality(RouteCalls(cluster[i])) = 1
             /\ Cardinality(RouteEntries(cluster[i])) = 1
    /\ \A i \in PeerNodes :
          /\ Cardinality(FdbCalls(cluster[i])) <= 1
          /\ Cardinality(FdbEntries(cluster[i])) <= 1
          /\ Cardinality(RouteCalls(cluster[i])) <= 1
          /\ Cardinality(RouteEntries(cluster[i])) <= 1
    /\ \A i \in LocalNodes :
          /\ FdbCalls(cluster[i]) = {}
          /\ FdbEntries(cluster[i]) = {}
          /\ RouteCalls(cluster[i]) = {}
          /\ RouteEntries(cluster[i]) = {}

\* a pass that succeeded over a list with the local node and at least two peers
C4_Witness ==
    /\ pc = "done"
    /\ LocalNodes # {}
    /\ Cardinality(PeerNodes) >= 2
    /\ \A i \in PeerNodes : FdbEntries(cluster[i]) # {} /\ RouteEntries(cluster[i]) # {}

HasReachability(node) ==
    /\ \E i \in DOMAIN neighs :
          /\ neighs[i].State = "PERMANENT"
          /\ IPString(neighs[i].IP) = InternalIPText(node)
    /\ \E n \in DOMAIN cubes : \E i \in DOMAIN cubes[n].route :
          cubes[n].route[i].Network = node.PodCIDR

\* C5 as stated: after a successful bootstrap every node of the list other than the
\* local node has a permanent forwarding entry and a router route
C5_EveryOtherNode ==
    pc = "done" =>
       \A i \in DOMAIN cluster :
          cluster[i].Name # conf.nodeName => HasReachability(cluster[i])

\* C5 amended: after a successful bootstrap every node of the list whose name starts
\* with "worker", other than the local node, has a permanent forwarding entry and a
\* router route; the nodes with other names are skipped
C5_EveryOtherWorker ==
    pc = "done" =>
       \A i \in DOMAIN cluster :
          (cluster[i].Name # conf.nodeName /\ HasPrefix(cluster[i].Name, "worker"))
             => HasReachability(cluster[i])

\* a successful bootstrap in a cluster with worker peers and a node of another name
C5_Witness ==
    /\ pc = "done"
    /\ \E i \in DOMAIN cluster :
          /\ cluster[i].Name # conf.nodeName
          /\ HasPrefix(cluster[i].Name, "worker")
          /\ HasReachability(cluster[i])
    /\ \E i \in DOMAIN cluster :
          /\ ~HasPrefix(cluster[i].Name, "worker")
          /\ ~HasReachability(cluster[i])

\* C6: every route call of the reachability pass is on the router of the configured
\* name, with the pod CIDR of a peer as destination, that peer's VTEP address as next
\* hop, and, once accepted, the port to_vxlan0 as egress
C6_RouteOnConfiguredRouter ==
    \A i \in DOMAIN calls :
       calls[i].op = "CreateRouterRouteByID" =>
          /\ calls[i].on = conf.routerName
          /\ \E j \in PeerNodes :
                /\ calls[i].arg = cluster[j].PodCIDR
                /\ calls[i].val = "10.18.0." \o TrimPrefix(cluster[j].Name, "worker")
          /\ calls[i].ok =>
                \E r \in DOMAIN cubes[conf.routerName].route :
                   /\ cubes[conf.routerName].route[r].Network = calls[i].arg
                   /\ cubes[conf.routerName].route[r].Nexthop = calls[i].val
                   /\ cubes[conf.routerName].route[r].Interface_ = "to_vxlan0"

\* the three links between cubes, each as <<cube, port, cube, port>>
CubeLinks ==
    { <<conf.bridgeName, "to_r0", conf.routerName, "to_br0">>,
      <<conf.routerName, "to_lbrp0", conf.lbrpName, "to_r0">>,
      <<conf.lbrpName, "to_k0", conf.k8sDispName, "to_lbrp0">> }

\* C7: once the wiring has completed, the two ports of each of the three links name
\* each other as "cube:port" with the configured cube names, and no port has another
\* port of a cube as its peer
C7_SymmetricLinks ==
    CubesWired =>
       /\ \A l \in CubeLinks :
             /\ PortOf(cubes[l[1]], l[2]).Peer = l[3] \o ":" \o l[4]
             /\ PortOf(cubes[l[3]], l[4]).Peer = l[1] \o ":" \o l[2]
       /\ \A n \in DOMAIN cubes : \A i \in DOMAIN cubes[n].ports :
             Index(cubes[n].ports[i].Peer, ":") > 0 =>
                \E l \in CubeLinks :
                   \/ /\ n = l[1]
                      /\ cubes[n].ports[i].Name = l[2]
                      /\ cubes[n].ports[i].Peer = l[3] \o ":" \o l[4]
                   \/ /\ n = l[3]
                      /\ cubes[n].ports[i].Name = l[4]
                      /\ cubes[n].ports[i].Peer = l[1] \o ":" \o l[2]

\* a completed wiring of cubes that do not have the default names
C7_Witness ==
    /\ CubesWired
    /\ conf.bridgeName = "br1"
    /\ conf.lbrpName = "lb1"
    /\ conf.k8sDispName = "k1"
    /\ PortOf(cubes["lb1"], "to_k0").Peer = "k1:to_lbrp0"

\* C8: once the wiring has completed, the peer of the router's port to_vxlan0 is the
\* VXLAN device of the configured name, and the peer of the dispatcher's port to_int
\* is the external interface
C8_DevicePeers ==
    CubesWired =>
       /\ PortOf(cubes[conf.routerName], "to_vxlan0").Peer = conf.vxlanIfName
       /\ PortOf(cubes[conf.k8sDispName], "to_int").Peer = nodeInfo.extIface.Link.Name

\* C9: whenever the configuration file is written, the uplink gateway's MAC and the pod
\* gateway's MAC are not empty, the uplink gateway was resolved before the router was
\* created, and the MAC in the file is the one of the router's port to_br0
C9_GatewayMACs ==
    FileWritten =>
       /\ nodeInfo.nodeGwInfo.MAC # <<>>
       /\ nodeInfo.podGwInfo.MAC # <<>>
       /\ \E i, j \in DOMAIN calls :
             /\ i < j
             /\ calls[i].op = "RouteGet"
             /\ calls[j].op = "CreateRouterByID"
       /\ ParseMAC(file.content[1].gatewayMAC).mac =
             ParseMAC(PortOf(cubes[conf.routerName], "to_br0").Mac).mac

\* the two 16-bit halves of a 4-byte address
HiHalf(ip) == ip[1] * 256 + ip[2]

LoHalf(ip) == ip[3] * 256 + ip[4]

\* the halves of the address one below the broadcast address of the network that
\* holds address a under prefix length p
BelowBroadcast(a, p) ==
    LET h   == 32 - p
        bhi == IF h <= 16 THEN HiHalf(a)
               ELSE (HiHalf(a) \div Pow2(h - 16)) * Pow2(h - 16) + Pow2(h - 16) - 1
        blo == IF h <= 16 THEN (LoHalf(a) \div Pow2(h)) * Pow2(h) + Pow2(h) - 1
               ELSE 65535
    IN  IF blo > 0 THEN <<bhi, blo - 1>> ELSE <<bhi - 1, 65535>>

\* the halves of the mask of prefix length p
MaskHalves(p) ==
    << 65536 - Pow2(16 - (IF p < 16 THEN p ELSE 16)),
       65536 - Pow2(16 - (IF p > 16 THEN p - 16 ELSE 0)) >>

\* C10: for the pod CIDR of the local node, whatever its prefix length, the pod gateway
\* computed is the address one below the broadcast address of the pod CIDR, with the
\* mask of the pod CIDR; its MAC is empty until the router has been read back; and the
\* pod CIDR 10.10.3.0/24 gives 10.10.3.254/24
C10_PodGatewayBelowBroadcast ==
    nodeInfo.podGwInfo # NilGwInfo =>
       LET text == nodeInfo.kNode.PodCIDR
           cut  == Index(text, "/")
           a    == ParseIP(SubSeq(text, 1, cut - 1))
           p    == ParseUint(SubSeq(text, cut + 1, Len(text)))
           gw   == nodeInfo.podGwInfo
       IN  /\ <<HiHalf(gw.IPNet.IP), LoHalf(gw.IPNet.IP)>> = BelowBroadcast(a, p)
           /\ <<HiHalf(gw.IPNet.Mask), LoHalf(gw.IPNet.Mask)>> = MaskHalves(p)
           /\ gw.IPNet.Mask = nodeInfo.podCIDR.Mask
           /\ (\A i \in DOMAIN calls : calls[i].op # "ReadRouterByID") => gw.MAC = <<>>
           /\ text = "10.10.3.0/24" => IPNetString(gw.IPNet) = "10.10.3.254/24"

\* the pod gateway of 10.10.3.0/24 just computed, and the one of a pod CIDR whose
\* prefix does not end on a byte
C10_Witness ==
    /\ pc = "GetNodeExtIface"
    /\ nodeInfo.podGwInfo.MAC = <<>>
    /\ \/ /\ nodeInfo.kNode.PodCIDR = "10.10.3.0/24"
          /\ nodeInfo.podGwInfo.IPNet.IP = <<10, 10, 3, 254>>
       \/ /\ nodeInfo.kNode.PodCIDR = "172.16.0.1/13"
          /\ nodeInfo.podGwInfo.IPNet.IP = <<172, 23, 255, 254>>

\* a name that follows the naming convention: worker followed by decimal digits
ConventionalName(name) ==
    /\ Len(name) > 6
    /\ SubSeq(name, 1, 6) = "worker"
    /\ \A i \in 7..Len(name) : IsDigit(Char(name, i))

\* the ordinal in a name that follows the convention
OrdinalOf(name) == ParseUint(SubSeq(name, 7, Len(name)))

\* the halves of the address n after address b
HalvesAfter(b, n) ==
    << HiHalf(b) + ((LoHalf(b) + n) \div 65536), (LoHalf(b) + n) % 65536 >>

\* address a is below address b
AddrBelow(a, b) ==
    \/ HiHalf(a) < HiHalf(b)
    \/ HiHalf(a) = HiHalf(b) /\ LoHalf(a) < LoHalf(b)

\* the VTEP addresses derived so far in the run, each with the name of its node: the
\* one of the local node, the one of the peer being added, and the next hops of the
\* routes requested for the peers
VtepResults ==
    (IF nodeInfo.nodeVtepIPNet # NilIPNet
     THEN {[name |-> nodeInfo.kNode.Name, ip |-> nodeInfo.nodeVtepIPNet.IP]} ELSE {})
    \cup (IF peer # NilPeer THEN {[name |-> peer.name, ip |-> peer.nodeVtepIP]} ELSE {})
    \cup {[name |-> cluster[j].Name, ip |-> ParseIP(calls[i].val)] :
            <<i, j>> \in {<<x, y>> \in (DOMAIN calls) \X (DOMAIN cluster) :
                            /\ calls[x].op = "CreateRouterRouteByID"
                            /\ calls[x].arg = cluster[y].PodCIDR}}

\* C11: for a node whose name is worker followed by the ordinal n, the VTEP address
\* derived is the base of the pool advanced by exactly n addresses, with the mask of the
\* pool; two nodes with the same ordinal get the same address, and a node with a smaller
\* ordinal gets a lower address
C11_VtepAdvancedByOrdinal ==
    /\ \A r \in VtepResults :
          ConventionalName(r.name) =>
             <<HiHalf(r.ip), LoHalf(r.ip)>> = HalvesAfter(conf.vtepCIDR.IP, OrdinalOf(r.name))
    /\ nodeInfo.nodeVtepIPNet # NilIPNet =>
          nodeInfo.nodeVtepIPNet.Mask = conf.vtepCIDR.Mask
    /\ \A r1, r2 \in VtepResults :
          (ConventionalName(r1.name) /\ ConventionalName(r2.name)) =>
             /\ OrdinalOf(r1.name) = OrdinalOf(r2.name) => r1.ip = r2.ip
             /\ OrdinalOf(r1.name) < OrdinalOf(r2.name) => AddrBelow(r1.ip, r2.ip)

\* a run that derived the addresses of worker256, worker2, worker02 and worker300 from
\* the default pool, across a byte boundary
C11_Witness ==
    /\ pc = "done"
    /\ [name |-> "worker256", ip |-> <<10, 18, 1, 0>>] \in VtepResults
    /\ [name |-> "worker2", ip |-> <<10, 18, 0, 2>>] \in VtepResults
    /\ [name |-> "worker02", ip |-> <<10, 18, 0, 2>>] \in VtepResults
    /\ [name |-> "worker300", ip |-> <<10, 18, 1, 44>>] \in VtepResults

\* C12: a VTEP address is derived only for a node whose name follows the naming
\* convention; for any other name the derivation fails with AddressDerivationError
C12_DerivationFailsOffConvention ==
    /\ \A r \in VtepResults : ConventionalName(r.name)
    /\ (pc = "exited" /\ err = "AddressDerivationError") =>
          \/ ~ConventionalName(nodeInfo.kNode.Name)
          \/ idx \in DOMAIN nodes /\ ~ConventionalName(nodes[idx].Name)
    /\ (nodeInfo.extIface # NilIface /\ ~ConventionalName(nodeInfo.kNode.Name)) =>
          pc = "CalcNodeVtepIPNet" \/ err = "AddressDerivationError"

CalledOp(op) == \E i \in DOMAIN calls : calls[i].op = op

\* the answer of the kernel does not pass the route check of the gateway resolution
RouteCheckFails ==
    \/ Len(routes) = 0
    \/ Len(routes) > 1
    \/ routes[1].LinkIndex # nodeInfo.extIface.Link.Index

\* C13: when the kernel's answer for the probe address is no route, several routes, or
\* one route that leaves by another interface than the external one, the run ends at
\* the gateway resolution, with RouteAmbiguityError unless the query itself failed; the
\* neighbor table is not read and no gateway is returned; RouteAmbiguityError has no
\* other cause
C13_RouteAmbiguity ==
    /\ (CalledOp("RouteGet") /\ RouteCheckFails) =>
          /\ pc = "exited"
          /\ err \in {"RouteAmbiguityError", "KernelQueryError"}
          /\ LastCall(calls).op = "RouteGet"
          /\ ~CalledOp("NeighList")
          /\ nodeInfo.nodeGwInfo = NilGwInfo
    /\ err = "RouteAmbiguityError" => (CalledOp("RouteGet") /\ RouteCheckFails)
    /\ (CalledOp("RouteGet") /\ LastCall(calls).ok) => ~RouteCheckFails

\* a run ended by a single route that leaves by another interface than the external one
C13_Witness ==
    /\ pc = "exited"
    /\ err = "RouteAmbiguityError"
    /\ Len(routes) = 1
    /\ nodeInfo.extIface # NilIface
    /\ routes[1].LinkIndex # nodeInfo.extIface.Link.Index

\* the neighbor entries of the external interface for the next hop of the route
GatewayNeighs ==
    {i \in DOMAIN neighs :
        /\ neighs[i].LinkIndex = nodeInfo.extIface.Link.Index
        /\ neighs[i].IP = routes[1].Gw}

\* the calls that read the state of the cluster or of the kernel
ReadOps == {"GetNode", "LinkList", "RouteGet", "NeighList"}

\* C14: a gateway is returned only when the route check passed; its address is the
\* next hop of the route, with the prefix length of the external interface's address,
\* and its MAC is the hardware address of a neighbor entry of the external interface
\* for that next hop; when the check passed and there is no such entry the run ends,
\* with GatewayMacUnresolvedError unless the query itself failed, and up to there the
\* run has only read the kernel's state
C14_GatewayFromRouteAndNeighbor ==
    /\ nodeInfo.nodeGwInfo # NilGwInfo =>
          /\ ~RouteCheckFails
          /\ nodeInfo.nodeGwInfo.IPNet.IP = routes[1].Gw
          /\ MaskSize(nodeInfo.nodeGwInfo.IPNet.Mask)
                = MaskSize(nodeInfo.extIface.IPNet.Mask)
          /\ \E i \in GatewayNeighs : nodeInfo.nodeGwInfo.MAC = neighs[i].HardwareAddr
    /\ (CalledOp("NeighList") /\ GatewayNeighs = {}) =>
          /\ pc = "exited"
          /\ err \in {"GatewayMacUnresolvedError", "KernelQueryError"}
          /\ nodeInfo.nodeGwInfo = NilGwInfo
    /\ err = "GatewayMacUnresolvedError" =>
          /\ ~RouteCheckFails
          /\ GatewayNeighs = {}
          /\ \A i \in DOMAIN calls : calls[i].op \in ReadOps
          /\ \A i \in DOMAIN neighs : neighs[i].State # "PERMANENT"
          /\ ~LinkExists(links, conf.vxlanIfName)

\* a gateway resolved on a machine where another interface has an entry for the same
\* address earlier in the neighbor table
C14_Witness ==
    /\ nodeInfo.nodeGwInfo.IPNet.IP = UplinkGwIP
    /\ nodeInfo.nodeGwInfo.MAC = <<82, 84, 0, 0, 0, 1>>
    /\ MaskSize(nodeInfo.nodeGwInfo.IPNet.Mask) = 24
    /\ neighs[1].LinkIndex = 3
    /\ neighs[1].IP = UplinkGwIP

\* the text of the first internal IP the cluster reports for the local node, "" if none
ReportedInternalIP ==
    LET as == nodeInfo.kNode.Addresses
        is == {i \in DOMAIN as : as[i].Type = "InternalIP"}
    IN  IF is = {} THEN "" ELSE as[CHOOSE i \in is : \A j \in is : i <= j].Address

\* the positions, in enumeration order, of the interfaces that own the reported IP
OwnerLinks ==
    {i \in DOMAIN links :
        \E j \in DOMAIN links[i].Addrs : IPString(links[i].Addrs[j].IP) = ReportedInternalIP}

\* the external interface resolution has returned or has ended the run
ExtIfaceResolutionOver == nodeInfo.podGwInfo # NilGwInfo /\ pc # "GetNodeExtIface"

\* C15: the external interface returned is the first interface, in enumeration order,
\* that has the node's reported internal IP among its IPv4 addresses, with that address
\* and its prefix, whatever the other interfaces and addresses; when no interface has
\* it, or the node reports no internal IP, the run ends with InterfaceNotFoundError
\* (unless the query of the interfaces itself failed)
C15_FirstOwnerIsExtIface ==
    /\ nodeInfo.extIface # NilIface =>
          /\ OwnerLinks # {}
          /\ LET first == CHOOSE i \in OwnerLinks : \A j \in OwnerLinks : i <= j
             IN  /\ nodeInfo.extIface.Link.Name = links[first].Name
                 /\ nodeInfo.extIface.Link.Index = links[first].Index
                 /\ \E j \in DOMAIN links[first].Addrs :
                       nodeInfo.extIface.IPNet = links[first].Addrs[j]
                 /\ IPString(nodeInfo.extIface.IPNet.IP) = ReportedInternalIP
    /\ (ExtIfaceResolutionOver /\ OwnerLinks = {}) =>
          /\ pc = "exited"
          /\ err \in {"InterfaceNotFoundError", "KernelQueryError"}
          /\ nodeInfo.extIface = NilIface
    /\ (ExtIfaceResolutionOver /\ ReportedInternalIP = "") =>
          /\ err = "InterfaceNotFoundError"
          /\ ~CalledOp("LinkList")
    /\ (err = "InterfaceNotFoundError" /\ nodeInfo.extIface = NilIface) => OwnerLinks = {}

\* two interfaces have the reported IP: the first one is returned, matched on its second
\* address
C15_Witness ==
    /\ nodeInfo.extIface.Link.Name = "bond0"
    /\ nodeInfo.extIface.Link.Index = 2
    /\ MaskSize(nodeInfo.extIface.IPNet.Mask) = 16
    /\ Len(links) >= 3
    /\ links[3].Name = "eth0"
    /\ Cardinality(OwnerLinks) = 2

\* C16: on workerN, whose pod CIDR is 10.10.N.0/24, with the VTEP pool 10.18.0.0/16, the
\* pod gateway derived is 10.10.N.254/24 and the VTEP address 10.18.0.N, and the file
\* written has subnet 10.10.N.0/24, rangeStart 10.10.N.1, rangeEnd 10.10.N.253 and
\* gateway 10.10.N.254, with the MTU, the pod-overlay CIDR and the bridge name of the
\* configuration
C16_EndToEndAddressing ==
    LET N == Itoa(host)
    IN  /\ nodeInfo.podCIDR # NilIPNet =>
              IPNetString(nodeInfo.podCIDR) = "10.10." \o N \o ".0/24"
        /\ nodeInfo.podGwInfo # NilGwInfo =>
              IPNetString(nodeInfo.podGwInfo.IPNet) = "10.10." \o N \o ".254/24"
        /\ nodeInfo.nodeVtepIPNet # NilIPNet =>
              IPNetString(nodeInfo.nodeVtepIPNet) = "10.18.0." \o N \o "/16"
        /\ FileWritten =>
              LET f == file.content[1]
              IN  /\ f.subnet = "10.10." \o N \o ".0/24"
                  /\ f.rangeStart = "10.10." \o N \o ".1"
                  /\ f.rangeEnd = "10.10." \o N \o ".253"
                  /\ f.gateway = "10.10." \o N \o ".254"
                  /\ f.gatewayIP = "10.10." \o N \o ".254"
                  /\ f.MTU = (IF env.POLYCUBE_MTU = "" THEN 1450 ELSE 9000)
                  /\ f.vclustercidr = (IF env.POLYCUBE_VPODS_RANGE = ""
                                       THEN "10.10.0.0/16" ELSE "10.0.0.0/8")
                  /\ f.bridge = (IF env.POLYCUBE_BRIDGE_NAME = "" THEN "br0" ELSE "br1")

\* the file written on worker2 with a configured MTU, pod-overlay CIDR and bridge name
C16_Witness ==
    /\ FileWritten
    /\ host = 2
    /\ file.content[1].rangeStart = "10.10.2.1"
    /\ file.content[1].rangeEnd = "10.10.2.253"
    /\ file.content[1].MTU = 9000
    /\ file.content[1].bridge = "br1"
    /\ nodeInfo.nodeVtepIPNet.IP = <<10, 18, 0, 2>>

\* the text is an IPv4 CIDR: four decimal fields of at most 255 and a prefix length of
\* at most 32
IsIPv4CIDRText(c) ==
    LET cut == Index(c, "/")
        f   == Split(SubSeq(c, 1, cut - 1), ".")
        p   == ParseUint(SubSeq(c, cut + 1, Len(c)))
    IN  /\ cut > 0
        /\ Len(f) = 4
        /\ \A i \in 1..4 : ParseUint(f[i]) >= 0 /\ ParseUint(f[i]) <= 255
        /\ p >= 0
        /\ p <= 32

\* C17: the run goes past the parsing of the local pod CIDR only when it is an IPv4
\* CIDR, ending with AddressFormatError otherwise; and for a peer whose advertised pod
\* CIDR is not an IPv4 CIDR there is at no time a forwarding entry or a router route,
\* nor a call that requests one
C17_IPv4OnlyPodCIDRs ==
    /\ nodeInfo.podCIDR # NilIPNet => IsIPv4CIDRText(nodeInfo.kNode.PodCIDR)
    /\ (nodeInfo.kNode # NilNode /\ ~IsIPv4CIDRText(nodeInfo.kNode.PodCIDR)) =>
          pc = "ParseNodePodCIDR" \/ (pc = "exited" /\ err = "AddressFormatError")
    /\ \A j \in PeerNodes :
          ~IsIPv4CIDRText(cluster[j].PodCIDR) =>
             /\ FdbCalls(cluster[j]) = {}
             /\ FdbEntries(cluster[j]) = {}
             /\ RouteCalls(cluster[j]) = {}
             /\ RouteEntries(cluster[j]) = {}
             /\ idx > j => (pc = "exited" /\ err = "AddressFormatError")

\* the calls of AddNode for a node that returned an error
FailedFdbCalls(node) == {i \in FdbCalls(node) : ~calls[i].ok}

FailedRouteCalls(node) == {i \in RouteCalls(node) : ~calls[i].ok}

\* C18: for every peer the route is requested only after its forwarding entry was
\* appended; a failed append leaves the peer without entry, route request and route; a
\* failed route request leaves the peer's forwarding entry in place and no route; after
\* either failure the run is over, no later node of the list has an entry, a route or a
\* call, and every earlier peer keeps its forwarding entry and its route
C18_EntryThenRouteNoRollback ==
    \A j \in PeerNodes :
       LET node == cluster[j]
           failed == FailedFdbCalls(node) # {} \/ FailedRouteCalls(node) # {}
       IN  /\ \A r \in RouteCalls(node) :
                \E f \in FdbCalls(node) : f < r /\ calls[f].ok
           /\ RouteEntries(node) # {} => FdbEntries(node) # {}
           /\ FailedFdbCalls(node) # {} =>
                 /\ FdbEntries(node) = {}
                 /\ RouteCalls(node) = {}
                 /\ RouteEntries(node) = {}
           /\ FailedRouteCalls(node) # {} =>
                 /\ Cardinality(FdbEntries(node)) = 1
                 /\ RouteEntries(node) = {}
           /\ failed =>
                 /\ pc = "exited"
                 /\ idx = j
                 /\ \A l \in PeerNodes :
                       /\ l > j => /\ FdbCalls(cluster[l]) = {}
                                   /\ FdbEntries(cluster[l]) = {}
                                   /\ RouteCalls(cluster[l]) = {}
                                   /\ RouteEntries(cluster[l]) = {}
                       /\ l < j => /\ Cardinality(FdbEntries(cluster[l])) = 1
                                   /\ Cardinality(RouteEntries(cluster[l])) = 1

\* a run that ended on the failed route request of a peer, whose forwarding entry is in
\* place, after an earlier peer was added
C18_Witness ==
    /\ pc = "exited"
    /\ err = "ManagementApiError"
    /\ \E j, l \in PeerNodes :
          /\ l < j
          /\ FailedRouteCalls(cluster[j]) # {}
          /\ FdbEntries(cluster[j]) # {}
          /\ RouteEntries(cluster[j]) = {}
          /\ RouteEntries(cluster[l]) # {}

\* the name the run is configured to give its VXLAN device
ConfiguredVxlanIfName == getEnv(env, "NODE_VXLAN_IFACE_NAME", "vxlan0")

\* the run was started while a device with the configured name existed: the device is
\* there and no LinkAdd of this run has created it
StartedWithVxlanDevice ==
    /\ LinkExists(links, ConfiguredVxlanIfName)
    /\ \A i \in DOMAIN calls : ~(calls[i].op = "LinkAdd" /\ calls[i].ok)

\* a run started while a device with the configured VXLAN name exists is never past the
\* creation of the VXLAN device: a LinkAdd it issued has failed and ended the run with
\* InterfaceCreationError, the run has not completed, and it has issued no call of the
\* cube creation and wiring, of the gateway MAC read, of the file write or of the
\* reachability pass
ExistingVxlanDeviceBlocksRun ==
    StartedWithVxlanDevice =>
       /\ pc # "done"
       /\ StageOf(pc) \in {"", "BuildNodeInfo", "CreateNodeVxlanIface"}
       /\ pc \notin {"LinkByName", "LinkSetUp", "AddrAdd"}
       /\ \A i \in DOMAIN calls :
             /\ calls[i].by \in {"", "BuildNodeInfo", "CreateNodeVxlanIface"}
             /\ calls[i].op \notin CreateOps \cup {"CreateK8sdispatcherPortsByID",
                                                  "UpdatePortsByID", "ReadRouterByID",
                                                  "os.Create", "Fprintf", "ListNodes",
                                                  "NeighAppend", "CreateRouterRouteByID"}
             /\ calls[i].op = "LinkAdd" =>
                   /\ i = Len(calls)
                   /\ pc = "exited"
                   /\ err = "InterfaceCreationError"
       /\ (pc = "exited" /\ err \notin {"InterfaceCreationError"}) =>
             \A i \in DOMAIN calls : calls[i].op # "LinkAdd"

\* the creation of the VXLAN device, reached while a device with the configured name
\* exists, ends the run with InterfaceCreationError and changes nothing
VxlanCreationFailsOnExistingDevice ==
    (pc = "LinkAdd" /\ LinkExists(links, conf.vxlanIfName)) =>
       /\ pc' = "exited"
       /\ err' = "InterfaceCreationError"
       /\ UNCHANGED effects

\* C19: a run started while a device with the configured VXLAN name exists (on a first
\* start, or started again after a run that ended at any later point) fails at the
\* creation of the VXLAN device with InterfaceCreationError when it reaches it, never
\* completes, and issues no call of the cube creation and wiring, of the file write or of
\* the reachability pass (a run that an earlier stage fails ends there, before the
\* device)
C19_ExistingVxlanDeviceBlocksRun ==
    /\ []ExistingVxlanDeviceBlocksRun
    /\ [][VxlanCreationFailsOnExistingDevice]_vars

\* a run started again after a run that wrote the file, ended at the creation of the
\* VXLAN device
C19_Witness ==
    /\ StartedWithVxlanDevice
    /\ file.exists
    /\ cubes # <<>>
    /\ pc = "exited"
    /\ err = "InterfaceCreationError"
    /\ LastCall(calls).op = "LinkAdd"
    /\ ~LastCall(calls).ok

\* the network of worker n's pod CIDR, whatever the form the cluster advertises it in
PodNetworkOf(n, text) ==
    IF text = "10." \o Itoa(n) \o ".0.0/16" THEN text ELSE "10.10." \o Itoa(n) \o ".0/24"

\* the halves of the first address of a VTEP pool
PoolBaseHalves(pool) ==
    IF pool = "172.20.255.250/24" THEN <<172 * 256 + 20, 255 * 256>>
    ELSE <<10 * 256 + 18, 0>>

\* the VTEP address of worker n in a pool, as halves
VtepHalvesOf(pool, n) == <<PoolBaseHalves(pool)[1], PoolBaseHalves(pool)[2] + n>>

\* the workers other than the local one in the order of the node list, and the route
\* requests of the run in the order they were issued
PeerOrdinals == SelectSeq([n \in 1..NumWorkers |-> n], LAMBDA n : n # host)

RouteRequests == SelectSeq(calls, LAMBDA c : c.op = "CreateRouterRouteByID")

\* the routes of the router r0 through its port toward the VXLAN interface
VxlanRoutes ==
    IF "r0" \in DOMAIN cubes
    THEN {i \in DOMAIN cubes["r0"].route : cubes["r0"].route[i].Interface_ = "to_vxlan0"}
    ELSE {}

\* C20: in the runs of the workers of one cluster with one VTEP pool, the route a node
\* requests toward the peer worker n has as next hop the address that worker n's own run
\* derives for itself and assigns to its VXLAN interface, and as destination the pod
\* CIDR that worker n's own run resolves for itself: both sides are the n-th address of
\* the pool and the network of worker n's advertised pod CIDR
C20_RouteMatchesPeerOwnAddressing ==
    LET pool == env.NODE_VTEP_CIDR
        vx   == LinkNamed(links, "vxlan0")
    IN  /\ Len(RouteRequests) <= Len(PeerOrdinals)
        /\ \A r \in DOMAIN RouteRequests :
              LET n == PeerOrdinals[r]
                  a == ParseIP(RouteRequests[r].val)
              IN  /\ <<HiHalf(a), LoHalf(a)>> = VtepHalvesOf(pool, n)
                  /\ RouteRequests[r].arg = PodNetworkOf(n, cluster[n + 1].PodCIDR)
        /\ \A i \in VxlanRoutes :
              \E n \in 1..NumWorkers :
                 LET a == ParseIP(cubes["r0"].route[i].Nexthop)
                 IN  /\ n # host
                     /\ <<HiHalf(a), LoHalf(a)>> = VtepHalvesOf(pool, n)
                     /\ cubes["r0"].route[i].Network = PodNetworkOf(n, cluster[n + 1].PodCIDR)
        /\ nodeInfo.podCIDR # NilIPNet =>
              IPNetString(nodeInfo.podCIDR) = PodNetworkOf(host, cluster[host + 1].PodCIDR)
        /\ nodeInfo.nodeVtepIPNet # NilIPNet =>
              <<HiHalf(nodeInfo.nodeVtepIPNet.IP), LoHalf(nodeInfo.nodeVtepIPNet.IP)>>
                 = VtepHalvesOf(pool, host)
        /\ LinkExists(links, "vxlan0") =>
              \A j \in DOMAIN vx.Addrs :
                 <<HiHalf(vx.Addrs[j].IP), LoHalf(vx.Addrs[j].IP)>> = VtepHalvesOf(pool, host)

\* a completed run on worker2 with a pool that is not the default one, which assigned
\* the VXLAN interface its address and requested a route toward every other worker, one
\* of them advertised as an address inside its pod network
C20_Witness ==
    /\ pc = "done"
    /\ host = 2
    /\ env.NODE_VTEP_CIDR = "172.20.255.250/24"
    /\ cluster[2].PodCIDR = "10.10.1.77/24"
    /\ Len(RouteRequests) = NumWorkers - 1
    /\ Cardinality(VxlanRoutes) = NumWorkers - 1
    /\ Len(LinkNamed(links, "vxlan0").Addrs) = 1

\* the halves of the network address and of the broadcast address of the network that
\* holds address a under prefix length p
NetworkHalves(a, p) ==
    LET h == 32 - p
    IN  << IF h <= 16 THEN HiHalf(a) ELSE (HiHalf(a) \div Pow2(h - 16)) * Pow2(h - 16),
           IF h <= 16 THEN (LoHalf(a) \div Pow2(h)) * Pow2(h) ELSE 0 >>

BroadcastHalves(a, p) ==
    LET h == 32 - p
        n == NetworkHalves(a, p)
    IN  << IF h <= 16 THEN n[1] ELSE n[1] + Pow2(h - 16) - 1,
           IF h <= 16 THEN n[2] + Pow2(h) - 1 ELSE 65535 >>

\* the order of addresses given as halves
HalvesBelow(x, y) == x[1] < y[1] \/ (x[1] = y[1] /\ x[2] < y[2])

HalvesUpTo(x, y) == x = y \/ HalvesBelow(x, y)

\* the halves of an address written in dotted decimal
HalvesOfText(t) == <<HiHalf(ParseIP(t)), LoHalf(ParseIP(t))>>

\* the pod CIDR of the local node as the cluster advertises it: its address and its
\* prefix length
AdvertisedPodAddr ==
    ParseIP(SubSeq(nodeInfo.kNode.PodCIDR, 1, Index(nodeInfo.kNode.PodCIDR, "/") - 1))

AdvertisedPodPrefix ==
    ParseUint(SubSeq(nodeInfo.kNode.PodCIDR, Index(nodeInfo.kNode.PodCIDR, "/") + 1,
                     Len(nodeInfo.kNode.PodCIDR)))

\* the IPAM block of the file for a pod CIDR of network n and broadcast address b is
\* well-formed
WellFormedIPAM(f, n, b) ==
    LET s == HalvesOfText(f.rangeStart)
        e == HalvesOfText(f.rangeEnd)
        g == HalvesOfText(f.gateway)
    IN  /\ HalvesUpTo(s, e)
        /\ HalvesUpTo(n, s) /\ HalvesUpTo(s, b)
        /\ HalvesUpTo(n, e) /\ HalvesUpTo(e, b)
        /\ HalvesBelow(n, g) /\ HalvesBelow(g, b)
        /\ HalvesBelow(g, s) \/ HalvesBelow(e, g)

\* C21: whatever the prefix length (0..32) of the IPv4 pod CIDR of the local node, the
\* IPAM block of the written file is well-formed: rangeStart is not above rangeEnd, both
\* are inside the pod subnet, the gateway is inside the pod subnet and is neither its
\* network nor its broadcast address, and the gateway is outside the range
C21_IPAMWellFormed ==
    FileWritten =>
       WellFormedIPAM(file.content[1],
                      NetworkHalves(AdvertisedPodAddr, AdvertisedPodPrefix),
                      BroadcastHalves(AdvertisedPodAddr, AdvertisedPodPrefix))
====
